---- MODULE Spec2Model ----
(***************************************************************************)
(* Model of the chat-service coordination core: Socket.IO connections,    *)
(* the ChatService session directory (backed by the Prisma store), the    *)
(* in-memory AI generation lock, the room fan-out of Socket.IO and the    *)
(* fixed-window SocketRateLimiter.                                         *)
(*                                                                         *)
(* Every socket event handler is an async function.  A handler in flight  *)
(* is a task; one step of a task is one awaited store/provider call       *)
(* together with the synchronous continuation that runs up to the next    *)
(* await.  Tasks of any connections interleave freely between awaits.     *)
(***************************************************************************)
EXTENDS Integers, Sequences, FiniteSets, TLC

\* ------------------------------------------------------------------ bounds
MaxConns == 3          \* sockets that may ever connect
MaxSessions == 2       \* chatSession rows the store may hold
MaxTasks == 2          \* handlers in flight at the same time
MaxTime == 2           \* last value of the clock Date.now()
ExtraCalls == 1        \* calls modelled beyond a limiter's maxRequests
MAX_MESSAGE_LENGTH == 6 \* length cap of sanitize.ts (5000 in production)
joinMaxRequests == 2   \* joinRateLimiter maxRequests (5 in production)
msgMaxRequests == 2    \* messageRateLimiter maxRequests (10 in production)
MaxMessages == 2 * msgMaxRequests  \* chatMessage rows the store may hold:
                       \* one connection's messages of a window, each with a reply
windowMs == 1          \* window length of both limiters, in clock units
MaxCalls == 5          \* calls recorded by the limiter harness
sweepMs == 1           \* period of the limiters' cleanup interval, in clock units
SweepMaxTime == 4      \* last value of the clock while the cleanup timer is followed

Conns == 1..MaxConns
\* the operator's socket and one guest socket
TwoConns == {1, 2}
TaskIds == 1..MaxTasks
SessionIds == 1..MaxSessions

\* ------------------------------------------------------- external records
\* merchant rows of the store; "Q" names no row
Merchants == {"X", "Y"}
MerchantIds == Merchants \cup {"Q"}

\* credentials a handshake may present, and the auth session they resolve to
Credentials == {"none", "tokX", "tokY", "tokU", "expired", "unknown"}

\* prisma.session row found for a token: the merchant of its user, "" when
\* there is no row or the user has no merchant profile ("tokU")
AuthMerchant(cred) ==
  CASE cred = "tokX" -> "X"
    [] cred = "tokY" -> "Y"
    [] cred = "expired" -> "X"
    [] OTHER -> ""

AuthSessionFound(cred) == cred \in {"tokX", "tokY", "tokU", "expired"}
AuthSessionLive_ignoreExpiry(cred) == AuthSessionFound(cred)

AuthSessionLive(cred) == cred \in {"tokX", "tokY", "tokU"}

\* customer:join payloads
CustomerIds == {"", "k"}
Profiles == { [name |-> "ann", email |-> ""], [name |-> "bob", email |-> "b@x"] }

VARIABLES
  now,            \* Date.now()
  conn,           \* conn[c]: "new" | "open" | "closed"
  data,           \* socket.data of each connection
  sessionRooms,   \* sessionRooms[c]: the ids i with c in room session:i
  merchantRooms,  \* merchantRooms[c]: the ids m with c in room merchant:m
  activeConnections,
  chatEnabled,    \* merchant.isChatEnabled of each merchant row
  sessions,       \* chatSession rows, id = index
  messages,       \* chatMessage rows in creation order, id = index
  aiLocks,        \* ChatService.aiLocks
  aiEnabledEnv,   \* process.env.AI_ENABLED === 'true' and an API key is set
  joinLimits,     \* joinRateLimiter.limits
  msgLimits,      \* messageRateLimiter.limits
  tasks,          \* handlers in flight
  handshake,      \* credential presented by each connection's handshake
  emitted,        \* events delivered by the last step
  rlLog,          \* calls of messageRateLimiter.isRateLimited, oldest first
  sanLog,         \* the last call of sanitizeMessage: its argument and results
  sweepDue        \* the time the limiters' cleanup interval fires next

vars == << now, conn, data, sessionRooms, merchantRooms, activeConnections,
           chatEnabled, sessions, messages, aiLocks, aiEnabledEnv,
           joinLimits, msgLimits, tasks, handshake, emitted, rlLog, sanLog, sweepDue >>

\* ------------------------------------------------------------ rate limiter
NoEntry == [count |-> 0, resetTime |-> -1]

\* the branch of isRateLimited that opens a new window
OpensWindow(limits, id) ==
  limits[id] = NoEntry \/ now > limits[id].resetTime

\* SocketRateLimiter.isRateLimited: the limits map after the call
LimitsAfter(limits, id) ==
  IF OpensWindow(limits, id)
    THEN [limits EXCEPT ![id] = [count |-> 1, resetTime |-> now + windowMs]]
    ELSE [limits EXCEPT ![id].count = @ + 1]

\* isRateLimited comparing with >= instead of >
isRateLimited_offByOne(limits, id, maxRequests) ==
  IF OpensWindow(limits, id)
    THEN FALSE
    ELSE limits[id].count + 1 >= maxRequests

\* SocketRateLimiter.isRateLimited: the value returned
isRateLimited(limits, id, maxRequests) ==
  IF OpensWindow(limits, id)
    THEN FALSE
    ELSE limits[id].count + 1 > maxRequests

\* cleanup comparing with >= instead of >: it drops an entry at the very
\* instant its window ends
cleanup_atExpiry(limits) ==
  [id \in DOMAIN limits |->
     IF limits[id] # NoEntry /\ now >= limits[id].resetTime
       THEN NoEntry ELSE limits[id]]

\* cleanup with its comparison reversed: it drops the entries still in use
cleanup_reversed(limits) ==
  [id \in DOMAIN limits |->
     IF limits[id] # NoEntry /\ now < limits[id].resetTime
       THEN NoEntry ELSE limits[id]]

\* SocketRateLimiter.cleanup: drop the entries whose window has expired
cleanup(limits) ==
  [id \in DOMAIN limits |->
     IF limits[id] # NoEntry /\ now > limits[id].resetTime
       THEN NoEntry ELSE limits[id]]

\* SocketRateLimiter.getRemaining
getRemaining(limits, id, maxRequests) ==
  IF limits[id] = NoEntry \/ now > limits[id].resetTime
    THEN maxRequests
    ELSE IF maxRequests - limits[id].count > 0
      THEN maxRequests - limits[id].count ELSE 0

\* milliseconds in a second: the divisor of the handlers' wait time.  The
\* clock `now` advances in whole seconds.
SecondMs == 1000

\* SocketRateLimiter.getResetTime, in milliseconds
getResetTime(limits, id) ==
  IF limits[id] = NoEntry \/ now > limits[id].resetTime
    THEN 0
    ELSE (limits[id].resetTime - now) * SecondMs

\* Math.ceil(a / b) of a non-negative a and a positive b
Ceil(a, b) == (a + b - 1) \div b

\* the seconds a handler names in its rate-limit error, the limiter having
\* just answered isRateLimited: Math.ceil(getResetTime(socket.id) / 1000)
WaitSeconds(limits, id) == Ceil(getResetTime(LimitsAfter(limits, id), id), SecondMs)

\* a call is modelled only while the entry's count stays under a cap
CountOk(limits, id, maxRequests) ==
  OpensWindow(limits, id) \/ limits[id].count < maxRequests + ExtraCalls

\* ---------------------------------------------------------------- sanitize
\* message text is a sequence of one-character strings
Whitespace == {" "}

RECURSIVE TrimStart(_)
TrimStart(s) ==
  IF s # <<>> /\ Head(s) \in Whitespace THEN TrimStart(Tail(s)) ELSE s

RECURSIVE TrimEnd(_)
TrimEnd(s) ==
  IF s # <<>> /\ s[Len(s)] \in Whitespace
    THEN TrimEnd(SubSeq(s, 1, Len(s) - 1)) ELSE s

\* String.prototype.trim
Trim(s) == TrimEnd(TrimStart(s))

\* the chain of replace() calls of sanitizeMessage applied to one character
Entity(ch) ==
  CASE ch = "&" -> <<"&", "a", "m", "p", ";">>
    [] ch = "<" -> <<"&", "l", "t", ";">>
    [] ch = ">" -> <<"&", "g", "t", ";">>
    [] ch = "\"" -> <<"&", "q", "u", "o", "t", ";">>
    [] ch = "'" -> <<"&", "#", "x", "2", "7", ";">>
    [] ch = "/" -> <<"&", "#", "x", "2", "F", ";">>
    [] OTHER -> <<ch>>

RECURSIVE Encode(_)
Encode(s) == IF s = <<>> THEN <<>> ELSE Entity(Head(s)) \o Encode(Tail(s))

sanitizeMessage_raw(content) == content

\* sanitizeMessage
sanitizeMessage(content) ==
  LET encoded == Encode(Trim(content))
  IN IF content = <<>> THEN <<>>
     ELSE IF Len(encoded) > MAX_MESSAGE_LENGTH
       THEN SubSeq(encoded, 1, MAX_MESSAGE_LENGTH)
       ELSE encoded

\* validateMessage: "" when valid, the error text otherwise
validateMessage(content) ==
  IF content = <<>> THEN "Message content is required"
  ELSE IF Len(Trim(content)) = 0 THEN "Message cannot be empty"
  ELSE IF Len(Trim(content)) > MAX_MESSAGE_LENGTH
    THEN "Message exceeds maximum length"
  ELSE ""

\* sanLog before sanitizeMessage was called
NoSanitized == [called |-> FALSE, twice |-> FALSE, input |-> <<>>,
                output |-> <<>>, again |-> <<>>]

\* ------------------------------------------------------------ fan-out rooms
Evt(c, ev, sid, mid, msg) ==
  [to |-> c, ev |-> ev, sid |-> sid, mid |-> mid, msg |-> msg, hist |-> <<>>]

Open(c) == conn[c] = "open"

\* sockets of room session:i / merchant:m
SessionRoom(i) == {c \in Conns : Open(c) /\ i \in sessionRooms[c]}
MerchantRoom(m) == {c \in Conns : Open(c) /\ m \in merchantRooms[c]}

\* socket.emit(...): delivered only while the socket is connected
EmitTo(c, ev, sid, mid, msg) ==
  IF Open(c) THEN {Evt(c, ev, sid, mid, msg)} ELSE {}

\* io.to(`session:${i}`).emit(...)
ToSession(i, ev, mid, msg) == {Evt(c, ev, i, mid, msg) : c \in SessionRoom(i)}

\* the error sent with io.emit instead of socket.emit
ErrorTo_broadcast(c, msg) == {Evt(d, "error", 0, 0, msg) : d \in {e \in Conns : Open(e)}}

\* socket.emit('error', { message })
ErrorTo(c, msg) == EmitTo(c, "error", 0, 0, msg)

\* ------------------------------------------------------- session directory
NoSession ==
  [id |-> 0, merchantId |-> "", customerId |-> "", customerName |-> "",
   customerEmail |-> "", customerToken |-> 0, status |-> "",
   aiEnabled |-> FALSE, merchantTookOver |-> FALSE, updatedAt |-> 0]

\* ChatService.createSession: the row created; randomUUID() is modelled by
\* a token that is unique to the row (its id)
NewSession(merchantId, customerName, customerEmail, customerId) ==
  [id |-> Len(sessions) + 1, merchantId |-> merchantId,
   customerId |-> customerId, customerName |-> customerName,
   customerEmail |-> customerEmail, customerToken |-> Len(sessions) + 1,
   status |-> "active", aiEnabled |-> TRUE, merchantTookOver |-> FALSE,
   updatedAt |-> now]

\* limits of the history and listing reads, scaled to the model's stores
historyTake == 3       \* default limit of getSessionMessages (50 in production)
historyWindow == 2     \* conversationHistory.slice(-10) (10 in production)
merchantSessionsTake == 1  \* default limit of getMerchantSessions (20 in production)

\* ids of the chatMessage rows of a session, in creation order
RECURSIVE IdsOf(_, _)
IdsOf(sessionId, n) ==
  IF n = 0 THEN <<>>
  ELSE IF messages[n].sessionId = sessionId
         THEN Append(IdsOf(sessionId, n - 1), n)
         ELSE IdsOf(sessionId, n - 1)

\* ChatService.getSessionMessages with its default limit and offset
getSessionMessages(sessionId) ==
  LET all == IdsOf(sessionId, Len(messages))
  IN IF Len(all) > historyTake THEN SubSeq(all, 1, historyTake) ELSE all

\* the fields of a row that a handler reads from its local `session`
Snapshot(row) ==
  [NoSession EXCEPT !.id = row.id, !.merchantId = row.merchantId,
                    !.aiEnabled = row.aiEnabled,
                    !.merchantTookOver = row.merchantTookOver]

\* ChatService.getSession
getSession(sessionId) ==
  IF sessionId \in 1..Len(sessions) THEN sessions[sessionId] ELSE NoSession

\* the rows findFirst may return in findOrCreateSession: active rows of the
\* pair with the greatest updatedAt (0 stands for no row)
FindFirst(merchantId, customerId) ==
  LET match == {i \in 1..Len(sessions) :
                  /\ sessions[i].merchantId = merchantId
                  /\ sessions[i].customerId = customerId
                  /\ sessions[i].status = "active"}
  IN IF match = {} THEN {0}
     ELSE {i \in match : \A j \in match : sessions[j].updatedAt <= sessions[i].updatedAt}

\* the update of findOrCreateSession that resets the row's mode as well
RefreshSession_resetMode(row, customerName, customerEmail) ==
  [row EXCEPT !.customerName = customerName, !.customerEmail = customerEmail,
              !.updatedAt = now, !.aiEnabled = TRUE, !.merchantTookOver = FALSE]

\* the update of findOrCreateSession: name, email and updatedAt
RefreshSession(row, customerName, customerEmail) ==
  [row EXCEPT !.customerName = customerName, !.customerEmail = customerEmail,
              !.updatedAt = now]

\* a security check that accepts every token
TokenRejected_never(existing, customerToken) == FALSE

\* the security check of findOrCreateSession
TokenRejected(existing, customerToken) ==
  existing.customerToken # 0 /\ existing.customerToken # customerToken

\* a takeover that sets the takeover flag and leaves automated responses on
merchantTakeover_keepAI(sessionId) ==
  [sessions EXCEPT ![sessionId].merchantTookOver = TRUE]

\* ChatService.merchantTakeover
merchantTakeover(sessionId) ==
  [sessions EXCEPT ![sessionId].merchantTookOver = TRUE,
                   ![sessionId].aiEnabled = FALSE]

\* ChatService.releaseTakeover
releaseTakeover(sessionId) ==
  [sessions EXCEPT ![sessionId].merchantTookOver = FALSE,
                   ![sessionId].aiEnabled = TRUE]

\* ChatService.toggleAI
toggleAI(sessionId, enabled) ==
  [sessions EXCEPT ![sessionId].aiEnabled = enabled]

\* ChatService.closeSession
closeSession(sessionId) ==
  [sessions EXCEPT ![sessionId].status = "closed"]

\* isAILocked that never sees the lock
isAILocked_never(sessionId) == FALSE

isAILocked(sessionId) == sessionId \in aiLocks

\* ChatService.lockAI
lockAI(sessionId) == aiLocks \cup {sessionId}

\* unlockAI that leaves the entry in the set
unlockAI_keep(sessionId) == aiLocks

\* ChatService.unlockAI
unlockAI(sessionId) == aiLocks \ {sessionId}

\* MAX_CONNECTIONS of socket/index.ts (10000 by default; scaled)
MAX_CONNECTIONS == 2

\* ------------------------------------------------------------------- tasks
\* a handler between two awaits: its locals.  savedInAI is an observation,
\* not a local: the mode the conversation row had when the operator's
\* message row was created.
NoTask ==
  [kind |-> "idle", pc |-> "", conn |-> 0, sid |-> 0, merchantId |-> "",
   customerId |-> "", name |-> "", email |-> "", token |-> 0,
   input |-> <<>>, content |-> <<>>, mid |-> 0, session |-> NoSession,
   history |-> <<>>, savedInAI |-> FALSE]

Idle(t) == tasks[t].kind = "idle"

\* a new handler takes the lowest free slot
FreeSlot(t) == Idle(t) /\ \A u \in TaskIds : u < t => ~Idle(u)

Finish(t) == tasks' = [tasks EXCEPT ![t] = NoTask]
Goto(t, pc) == tasks' = [tasks EXCEPT ![t].pc = pc]

NoData == [userType |-> "", merchantId |-> "", sessionId |-> 0]

\* -------------------------------------------------------------------- Init
Init ==
  /\ now = 0
  /\ conn = [c \in Conns |-> "new"]
  /\ data = [c \in Conns |-> NoData]
  /\ sessionRooms = [c \in Conns |-> {}]
  /\ merchantRooms = [c \in Conns |-> {}]
  /\ activeConnections = 0
  /\ chatEnabled = [m \in Merchants |-> TRUE]
  /\ sessions = <<>>
  /\ messages = <<>>
  /\ aiLocks = {}
  /\ aiEnabledEnv \in BOOLEAN
  /\ joinLimits = [c \in Conns |-> NoEntry]
  /\ msgLimits = [c \in Conns |-> NoEntry]
  /\ tasks = [t \in TaskIds |-> NoTask]
  /\ handshake = [c \in Conns |-> "none"]
  /\ emitted = {}
  /\ rlLog = <<>>
  /\ sanLog = NoSanitized
  /\ sweepDue = sweepMs

\* the variables no handler of a socket event touches
EnvUnchanged == UNCHANGED << now, conn, activeConnections, chatEnabled,
                             aiEnabledEnv, handshake, rlLog, sanLog, sweepDue >>
StoreUnchanged == UNCHANGED << sessions, messages >>
RoomsUnchanged == UNCHANGED << data, sessionRooms, merchantRooms >>
LimitsUnchanged == UNCHANGED << joinLimits, msgLimits >>

\* ------------------------------------------------------------- environment
\* the clock advances
Tick ==
  /\ now < MaxTime
  /\ now' = now + 1
  /\ emitted' = {}
  /\ UNCHANGED << conn, data, sessionRooms, merchantRooms, activeConnections,
                  chatEnabled, sessions, messages, aiLocks, aiEnabledEnv,
                  joinLimits, msgLimits, tasks, handshake, rlLog, sanLog, sweepDue >>

\* the merchant's isChatEnabled flag is changed by the owning application
SetChatEnabled(m, b) ==
  /\ chatEnabled[m] # b
  /\ chatEnabled' = [chatEnabled EXCEPT ![m] = b]
  /\ emitted' = {}
  /\ UNCHANGED << now, conn, data, sessionRooms, merchantRooms,
                  activeConnections, sessions, messages, aiLocks, aiEnabledEnv,
                  joinLimits, msgLimits, tasks, handshake, rlLog, sanLog, sweepDue >>

\* the sweep of both limiters, run at any moment: the interval timer that
\* starts it is left out here (Sweep follows the timer)
Cleanup ==
  /\ \/ cleanup(joinLimits) # joinLimits
     \/ cleanup(msgLimits) # msgLimits
  /\ joinLimits' = cleanup(joinLimits)
  /\ msgLimits' = cleanup(msgLimits)
  /\ emitted' = {}
  /\ UNCHANGED << now, conn, data, sessionRooms, merchantRooms,
                  activeConnections, chatEnabled, sessions, messages, aiLocks,
                  aiEnabledEnv, tasks, handshake, rlLog, sanLog, sweepDue >>

\* -------------------------------------------------------------- connections
\* io.on('connection'): the socket is admitted and counted
Admit(c, userType, merchantId) ==
  /\ conn' = [conn EXCEPT ![c] = "open"]
  /\ data' = [data EXCEPT ![c] = [userType |-> userType,
                                  merchantId |-> merchantId, sessionId |-> 0]]
  /\ activeConnections' = activeConnections + 1

\* the connection limit middleware, and the authentication middleware up to
\* its session lookup
HandshakeStart(c, cred) ==
  /\ conn[c] = "new"
  /\ emitted' = {}
  /\ IF activeConnections >= MAX_CONNECTIONS
       THEN /\ conn' = [conn EXCEPT ![c] = "closed"]
            /\ UNCHANGED << data, activeConnections, handshake >>
       ELSE IF cred = "none"
         THEN Admit(c, "", "") /\ UNCHANGED handshake
         ELSE /\ conn' = [conn EXCEPT ![c] = "auth"]
              /\ handshake' = [handshake EXCEPT ![c] = cred]
              /\ UNCHANGED << data, activeConnections >>
  /\ UNCHANGED << now, sessionRooms, merchantRooms, chatEnabled, sessions,
                  messages, aiLocks, aiEnabledEnv, joinLimits, msgLimits,
                  tasks, rlLog, sanLog, sweepDue >>

\* prisma.session.findUnique answers (or throws) and the middleware decides
HandshakeAuth(c) ==
  /\ conn[c] = "auth"
  /\ emitted' = {}
  /\ \/ /\ AuthSessionFound(handshake[c]) /\ AuthSessionLive(handshake[c])
        /\ Admit(c, IF AuthMerchant(handshake[c]) = "" THEN "" ELSE "merchant",
                 AuthMerchant(handshake[c]))
        /\ UNCHANGED handshake
     \/ /\ ~(AuthSessionFound(handshake[c]) /\ AuthSessionLive(handshake[c]))
        /\ conn' = [conn EXCEPT ![c] = "closed"]
        /\ handshake' = [handshake EXCEPT ![c] = "invalid"]  \* next(Error), line 97
        /\ UNCHANGED << data, activeConnections >>
     \/ /\ conn' = [conn EXCEPT ![c] = "closed"]   \* the lookup throws
        /\ handshake' = [handshake EXCEPT ![c] = "error"]    \* next(Error), line 101
        /\ UNCHANGED << data, activeConnections >>
  /\ UNCHANGED << now, sessionRooms, merchantRooms, chatEnabled, sessions,
                  messages, aiLocks, aiEnabledEnv, joinLimits, msgLimits,
                  tasks, rlLog, sanLog, sweepDue >>

\* the identity the authentication middleware resolved for an admitted
\* connection: the merchant it operates, "" for a guest
OperatorOf(c) ==
  IF conn[c] \in {"open", "closed"} /\ AuthSessionLive(handshake[c])
    THEN AuthMerchant(handshake[c]) ELSE ""

Disconnect_unlocks(c) ==
  /\ conn[c] = "open"
  /\ conn' = [conn EXCEPT ![c] = "closed"]
  /\ activeConnections' = activeConnections - 1
  /\ sessionRooms' = [sessionRooms EXCEPT ![c] = {}]
  /\ merchantRooms' = [merchantRooms EXCEPT ![c] = {}]
  /\ aiLocks' = aiLocks \ sessionRooms[c]
  /\ emitted' = {}
  /\ UNCHANGED << now, data, chatEnabled, sessions, messages, aiEnabledEnv,
                  joinLimits, msgLimits, tasks, handshake, rlLog, sanLog, sweepDue >>

\* socket.on('disconnect'); the socket has left its rooms by then
Disconnect(c) ==
  /\ conn[c] = "open"
  /\ conn' = [conn EXCEPT ![c] = "closed"]
  /\ activeConnections' = activeConnections - 1
  /\ sessionRooms' = [sessionRooms EXCEPT ![c] = {}]
  /\ merchantRooms' = [merchantRooms EXCEPT ![c] = {}]
  /\ emitted' =
       IF data[c].userType = "merchant" /\ data[c].merchantId # ""
         THEN {Evt(d, "merchant:offline", 0, 0, data[c].merchantId) :
                 d \in MerchantRoom(data[c].merchantId) \ {c}}
         ELSE {}
  /\ UNCHANGED << now, data, chatEnabled, sessions, messages, aiLocks,
                  aiEnabledEnv, joinLimits, msgLimits, tasks, handshake, rlLog, sanLog, sweepDue >>

\* ------------------------------------------------------------ customer:join
\* the event arrives: rate limit check, then the merchant lookup is issued
CustomerJoinStart(c, t, m, p, cid, tok) ==
  /\ Open(c) /\ FreeSlot(t) /\ CountOk(joinLimits, c, joinMaxRequests)
  /\ joinLimits' = LimitsAfter(joinLimits, c)
  /\ IF isRateLimited(joinLimits, c, joinMaxRequests)
       THEN /\ emitted' = ErrorTo(c, "Too many join attempts")
            /\ UNCHANGED tasks
       ELSE /\ emitted' = {}
            /\ tasks' = [tasks EXCEPT ![t] =
                          [NoTask EXCEPT !.kind = "customerJoin",
                             !.pc = "merchant", !.conn = c, !.merchantId = m,
                             !.name = p.name, !.email = p.email,
                             !.customerId = cid, !.token = tok]]
  /\ EnvUnchanged /\ StoreUnchanged /\ RoomsUnchanged
  /\ UNCHANGED << msgLimits, aiLocks >>

\* a store call of the join throws: the catch block answers
JoinFail(t) ==
  /\ tasks[t].kind = "customerJoin"
  /\ tasks[t].pc \in {"merchant", "find", "update", "create", "history"}
  /\ emitted' = ErrorTo(tasks[t].conn, "Failed to join chat")
  /\ Finish(t)
  /\ EnvUnchanged /\ StoreUnchanged /\ RoomsUnchanged /\ LimitsUnchanged
  /\ UNCHANGED aiLocks

\* prisma.merchant.findUnique answers
JoinMerchant(t) ==
  LET k == tasks[t] IN
  /\ k.kind = "customerJoin" /\ k.pc = "merchant"
  /\ IF k.merchantId \notin Merchants
       THEN emitted' = ErrorTo(k.conn, "Merchant not found") /\ Finish(t)
       ELSE IF ~chatEnabled[k.merchantId]
         THEN /\ emitted' = ErrorTo(k.conn, "Chat is currently disabled for this store")
              /\ Finish(t)
         ELSE /\ emitted' = {}
              /\ Goto(t, IF k.customerId # "" THEN "find" ELSE "create")
  /\ EnvUnchanged /\ StoreUnchanged /\ RoomsUnchanged /\ LimitsUnchanged
  /\ UNCHANGED aiLocks

\* findOrCreateSession: findFirst answers and the token is checked
JoinFind(t) ==
  LET k == tasks[t] IN
  /\ k.kind = "customerJoin" /\ k.pc = "find"
  /\ \E i \in FindFirst(k.merchantId, k.customerId) :
       IF i = 0
         THEN emitted' = {} /\ Goto(t, "create")
         ELSE IF TokenRejected(sessions[i], k.token)
           THEN emitted' = ErrorTo(k.conn, "Failed to join chat") /\ Finish(t)
           ELSE /\ emitted' = {}
                /\ tasks' = [tasks EXCEPT ![t].pc = "update", ![t].sid = i]
  /\ EnvUnchanged /\ StoreUnchanged /\ RoomsUnchanged /\ LimitsUnchanged
  /\ UNCHANGED aiLocks

Enroll_noSocketsJoin(t, session) ==
  LET k == tasks[t]
      c == k.conn
      m == k.merchantId
  IN
  /\ data' = [data EXCEPT ![c] = [userType |-> "customer", merchantId |-> m,
                                  sessionId |-> session.id]]
  /\ merchantRooms' = [merchantRooms EXCEPT ![c] =
                         IF Open(c) THEN @ \cup {m} ELSE @]
  /\ sessionRooms' = [sessionRooms EXCEPT ![c] =
                        IF Open(c) THEN @ \cup {session.id} ELSE @]
  /\ emitted' = EmitTo(c, "session:created", session.id, 0, "")
  /\ tasks' = [tasks EXCEPT ![t] =
                  [NoTask EXCEPT !.kind = "customerJoin", !.pc = "fetch",
                     !.conn = c, !.merchantId = m, !.sid = session.id]]

\* lines 58-71 of handleCustomerJoin: socket.data, the rooms, socketsJoin
\* and session:created
Enroll(t, session) ==
  LET k == tasks[t]
      c == k.conn
      m == k.merchantId
      inMerchant == MerchantRoom(m) \cup (IF Open(c) THEN {c} ELSE {})
  IN
  /\ data' = [data EXCEPT ![c] = [userType |-> "customer", merchantId |-> m,
                                  sessionId |-> session.id]]
  /\ merchantRooms' = [merchantRooms EXCEPT ![c] =
                         IF Open(c) THEN @ \cup {m} ELSE @]
  /\ sessionRooms' = [d \in Conns |->
                        IF d \in inMerchant
                          THEN sessionRooms[d] \cup {session.id}
                          ELSE sessionRooms[d]]
  /\ emitted' = EmitTo(c, "session:created", session.id, 0, "")
  /\ tasks' = [tasks EXCEPT ![t] =
                  [NoTask EXCEPT !.kind = "customerJoin", !.pc = "fetch",
                     !.conn = c, !.merchantId = m, !.sid = session.id]]

\* findOrCreateSession: the update of the resumed row answers
JoinUpdate(t) ==
  LET k == tasks[t]
      updated == RefreshSession(sessions[k.sid], k.name, k.email)
  IN
  /\ k.kind = "customerJoin" /\ k.pc = "update"
  /\ sessions' = [sessions EXCEPT ![k.sid] = updated]
  /\ Enroll(t, updated)
  /\ EnvUnchanged /\ LimitsUnchanged
  /\ UNCHANGED << messages, aiLocks >>

\* createSession answers
JoinCreate(t) ==
  LET k == tasks[t]
      created == NewSession(k.merchantId, k.name, k.email, k.customerId)
  IN
  /\ k.kind = "customerJoin" /\ k.pc = "create"
  /\ Len(sessions) < MaxSessions
  /\ sessions' = Append(sessions, created)
  /\ Enroll(t, created)
  /\ EnvUnchanged /\ LimitsUnchanged
  /\ UNCHANGED << messages, aiLocks >>

\* fetchSockets answers: merchant:online when an operator is in the room
JoinFetch(t) ==
  LET k == tasks[t] IN
  /\ k.kind = "customerJoin" /\ k.pc = "fetch"
  /\ emitted' =
       IF \E d \in MerchantRoom(k.merchantId) : data[d].userType = "merchant"
         THEN EmitTo(k.conn, "merchant:online", 0, 0, k.merchantId)
         ELSE {}
  /\ Goto(t, "history")
  /\ EnvUnchanged /\ StoreUnchanged /\ RoomsUnchanged /\ LimitsUnchanged
  /\ UNCHANGED aiLocks

\* getSessionMessages answers: session:history
JoinHistory(t) ==
  LET k == tasks[t] IN
  /\ k.kind = "customerJoin" /\ k.pc = "history"
  /\ emitted' = IF Open(k.conn)
                  THEN {[Evt(k.conn, "session:history", k.sid, 0, "")
                           EXCEPT !.hist = getSessionMessages(k.sid)]}
                  ELSE {}
  /\ Finish(t)
  /\ EnvUnchanged /\ StoreUnchanged /\ RoomsUnchanged /\ LimitsUnchanged
  /\ UNCHANGED aiLocks

\* ------------------------------------------------- message:send (customer)
NewMessage(sessionId, content, senderType, senderId) ==
  [id |-> Len(messages) + 1, sessionId |-> sessionId, senderId |-> senderId,
   senderType |-> senderType, content |-> content]

\* saveMessage, second store call: the session's updatedAt is refreshed
Touch(sessionId) == [sessions EXCEPT ![sessionId].updatedAt = now]

\* texts generateResponse may return
FallbackMessage == <<"#fallback">>
NoContextMessage == <<"#nocontext">>
ProviderText == <<"#provider">>

\* the event arrives: rate limit, validation, sanitization; getSession is issued
CustomerMessageStart(c, t, sid, content) ==
  /\ Open(c) /\ FreeSlot(t) /\ CountOk(msgLimits, c, msgMaxRequests)
  /\ msgLimits' = LimitsAfter(msgLimits, c)
  /\ IF isRateLimited(msgLimits, c, msgMaxRequests)
       THEN emitted' = ErrorTo(c, "Too many messages") /\ UNCHANGED tasks
       ELSE IF validateMessage(content) # ""
         THEN emitted' = ErrorTo(c, validateMessage(content)) /\ UNCHANGED tasks
         ELSE /\ emitted' = {}
              /\ tasks' = [tasks EXCEPT ![t] =
                            [NoTask EXCEPT !.kind = "customerMessage",
                               !.pc = "getSession", !.conn = c, !.sid = sid,
                               !.input = content,
                               !.content = sanitizeMessage(content)]]
  /\ EnvUnchanged /\ StoreUnchanged /\ RoomsUnchanged
  /\ UNCHANGED << joinLimits, aiLocks >>

\* a store call before the generation throws: the catch block answers
MsgFail(t) ==
  /\ tasks[t].kind = "customerMessage"
  /\ tasks[t].pc \in {"getSession", "merchant", "create", "touch"}
  /\ emitted' = ErrorTo(tasks[t].conn, "Failed to send message")
  /\ Finish(t)
  /\ EnvUnchanged /\ StoreUnchanged /\ RoomsUnchanged /\ LimitsUnchanged
  /\ UNCHANGED aiLocks

\* chatService.getSession answers
MsgGetSession(t) ==
  LET k == tasks[t] IN
  /\ k.kind = "customerMessage" /\ k.pc = "getSession"
  /\ IF getSession(k.sid).id = 0
       THEN emitted' = ErrorTo(k.conn, "Session not found") /\ Finish(t)
       ELSE /\ emitted' = {}
            /\ tasks' = [tasks EXCEPT ![t].pc = "merchant",
                                      ![t].session = Snapshot(getSession(k.sid))]
  /\ EnvUnchanged /\ StoreUnchanged /\ RoomsUnchanged /\ LimitsUnchanged
  /\ UNCHANGED aiLocks

\* prisma.merchant.findUnique answers: is chat still enabled
MsgMerchant(t) ==
  LET k == tasks[t] IN
  /\ k.kind = "customerMessage" /\ k.pc = "merchant"
  /\ IF ~chatEnabled[k.session.merchantId]
       THEN /\ emitted' = ErrorTo(k.conn, "Chat is currently disabled for this store")
            /\ Finish(t)
       ELSE emitted' = {} /\ Goto(t, "create")
  /\ EnvUnchanged /\ StoreUnchanged /\ RoomsUnchanged /\ LimitsUnchanged
  /\ UNCHANGED aiLocks

\* saveMessage: prisma.chatMessage.create answers
MsgCreate(t) ==
  LET k == tasks[t] IN
  /\ k.kind = "customerMessage" /\ k.pc = "create"
  /\ Len(messages) < MaxMessages
  /\ messages' = Append(messages, NewMessage(k.sid, k.content, "customer", ""))
  /\ tasks' = [tasks EXCEPT ![t].pc = "touch", ![t].mid = Len(messages) + 1,
                            ![t].input = <<>>, ![t].content = <<>>]
  /\ emitted' = {}
  /\ EnvUnchanged /\ RoomsUnchanged /\ LimitsUnchanged
  /\ UNCHANGED << sessions, aiLocks >>

\* saveMessage returns: message:receive is broadcast, then lines 140-147:
\* the generation is started unless the session is locked
MsgTouch(t) ==
  LET k == tasks[t]
      wantsAI == k.session.aiEnabled /\ ~k.session.merchantTookOver /\ aiEnabledEnv
      starts == wantsAI /\ ~isAILocked(k.sid)
  IN
  /\ k.kind = "customerMessage" /\ k.pc = "touch"
  /\ sessions' = Touch(k.sid)
  /\ aiLocks' = IF starts THEN lockAI(k.sid) ELSE aiLocks
  /\ emitted' = ToSession(k.sid, "message:receive", k.mid, "")
                 \cup (IF starts THEN ToSession(k.sid, "typing:start", 0, "merchant")
                                ELSE {})
  /\ IF starts
       THEN tasks' = [tasks EXCEPT ![t].pc = "history"]
       ELSE Finish(t)
  /\ EnvUnchanged /\ RoomsUnchanged /\ LimitsUnchanged
  /\ UNCHANGED messages

\* a store call inside the try block throws: finally unlocks, catch answers
GenFail(t) ==
  /\ tasks[t].kind = "customerMessage"
  /\ tasks[t].pc \in {"history", "aiCreate", "aiTouch"}
  /\ aiLocks' = unlockAI(tasks[t].sid)
  /\ emitted' = ErrorTo(tasks[t].conn, "Failed to send message")
  /\ Finish(t)
  /\ EnvUnchanged /\ StoreUnchanged /\ RoomsUnchanged /\ LimitsUnchanged

\* getSessionMessages answers; generateResponse asks for the merchant context
GenHistory(t) ==
  LET k == tasks[t] IN
  /\ k.kind = "customerMessage" /\ k.pc = "history"
  /\ tasks' = [tasks EXCEPT ![t].pc = "context",
                            ![t].history = getSessionMessages(k.sid)]
  /\ emitted' = {}
  /\ EnvUnchanged /\ StoreUnchanged /\ RoomsUnchanged /\ LimitsUnchanged
  /\ UNCHANGED aiLocks

\* generateResponse returned text: typing:stop, then saveMessage is issued
Replied(t, text) ==
  /\ emitted' = ToSession(tasks[t].sid, "typing:stop", 0, "merchant")
  /\ tasks' = [tasks EXCEPT ![t].pc = "aiCreate", ![t].content = text,
                            ![t].mid = 0, ![t].history = <<>>]

\* the last n elements of a sequence: Array.prototype.slice(-n)
SliceLast(seq, n) ==
  IF Len(seq) > n THEN SubSeq(seq, Len(seq) - n + 1, Len(seq)) ELSE seq

\* the turns generateResponse puts into the request after the system prompt
ProviderHistory(conversationHistory) == SliceLast(conversationHistory, historyWindow)

\* getMerchantContext answers: without a context the provider is not called;
\* with one, the request is built and posted
GenContext(t, found) ==
  LET k == tasks[t] IN
  /\ k.kind = "customerMessage" /\ k.pc = "context"
  /\ IF found
       THEN /\ emitted' = {}
            /\ tasks' = [tasks EXCEPT ![t].pc = "provider",
                                      ![t].history = ProviderHistory(k.history)]
       ELSE Replied(t, NoContextMessage)
  /\ EnvUnchanged /\ StoreUnchanged /\ RoomsUnchanged /\ LimitsUnchanged
  /\ UNCHANGED aiLocks

\* axios.post answers, fails or returns no text
GenProvider(t, text) ==
  LET k == tasks[t] IN
  /\ k.kind = "customerMessage" /\ k.pc = "provider"
  /\ Replied(t, text)
  /\ EnvUnchanged /\ StoreUnchanged /\ RoomsUnchanged /\ LimitsUnchanged
  /\ UNCHANGED aiLocks

\* the reply handed to the broadcast without chatMessage.create
GenCreate_unsaved(t) ==
  LET k == tasks[t] IN
  /\ k.kind = "customerMessage" /\ k.pc = "aiCreate"
  /\ tasks' = [tasks EXCEPT ![t].pc = "aiTouch", ![t].mid = Len(messages) + 1,
                            ![t].content = <<>>]
  /\ emitted' = {}
  /\ EnvUnchanged /\ RoomsUnchanged /\ LimitsUnchanged
  /\ UNCHANGED << sessions, messages, aiLocks >>

\* saveMessage of the reply: prisma.chatMessage.create answers
GenCreate(t) ==
  LET k == tasks[t] IN
  /\ k.kind = "customerMessage" /\ k.pc = "aiCreate"
  /\ Len(messages) < MaxMessages
  /\ messages' = Append(messages, NewMessage(k.sid, k.content, "ai", ""))
  /\ tasks' = [tasks EXCEPT ![t].pc = "aiTouch", ![t].mid = Len(messages) + 1,
                            ![t].content = <<>>]
  /\ emitted' = {}
  /\ EnvUnchanged /\ RoomsUnchanged /\ LimitsUnchanged
  /\ UNCHANGED << sessions, aiLocks >>

\* saveMessage of the reply returns: ai:response, finally unlocks
GenTouch(t) ==
  LET k == tasks[t] IN
  /\ k.kind = "customerMessage" /\ k.pc = "aiTouch"
  /\ sessions' = Touch(k.sid)
  /\ emitted' = ToSession(k.sid, "ai:response", k.mid, "")
  /\ aiLocks' = unlockAI(k.sid)
  /\ Finish(t)
  /\ EnvUnchanged /\ RoomsUnchanged /\ LimitsUnchanged
  /\ UNCHANGED messages

\* ------------------------------------------------------------ merchant:join
\* the active chatSession rows of a merchant
ActiveSessions(merchantId) ==
  {i \in 1..Len(sessions) :
     sessions[i].merchantId = merchantId /\ sessions[i].status = "active"}

\* ChatService.getMerchantSessions with its default limit and offset: the
\* results findMany may return, each the first merchantSessionsTake active
\* rows of the merchant by updatedAt descending (rows of equal updatedAt
\* come in the order the store chooses)
getMerchantSessions(merchantId) ==
  LET active == ActiveSessions(merchantId)
      n == IF Cardinality(active) > merchantSessionsTake
             THEN merchantSessionsTake ELSE Cardinality(active)
  IN {S \in SUBSET active :
        /\ Cardinality(S) = n
        /\ \A i \in S, j \in active \ S :
             sessions[i].updatedAt >= sessions[j].updatedAt}

\* the event arrives: rate limit, strict auth check, the merchant room is
\* joined and getMerchantSessions is issued
MerchantJoinStart(c, t) ==
  /\ Open(c) /\ FreeSlot(t) /\ CountOk(joinLimits, c, joinMaxRequests)
  /\ joinLimits' = LimitsAfter(joinLimits, c)
  /\ IF isRateLimited(joinLimits, c, joinMaxRequests)
       THEN /\ emitted' = ErrorTo(c, "Too many join attempts")
            /\ UNCHANGED << tasks, merchantRooms >>
       ELSE IF data[c].userType # "merchant" \/ data[c].merchantId = ""
         THEN /\ emitted' = ErrorTo(c, "Unauthorized: Invalid merchant credentials")
              /\ UNCHANGED << tasks, merchantRooms >>
         ELSE /\ emitted' = {}
              /\ merchantRooms' = [merchantRooms EXCEPT ![c] = @ \cup {data[c].merchantId}]
              /\ tasks' = [tasks EXCEPT ![t] =
                            [NoTask EXCEPT !.kind = "merchantJoin", !.pc = "list",
                               !.conn = c, !.merchantId = data[c].merchantId]]
  /\ EnvUnchanged /\ StoreUnchanged
  /\ UNCHANGED << data, sessionRooms, msgLimits, aiLocks >>

\* getMerchantSessions answers (or throws)
MerchantJoinList(t, ok) ==
  LET k == tasks[t] IN
  /\ k.kind = "merchantJoin" /\ k.pc = "list"
  /\ IF ok
       THEN /\ \E listed \in getMerchantSessions(k.merchantId) :
                 sessionRooms' = [sessionRooms EXCEPT ![k.conn] =
                                    IF Open(k.conn) THEN @ \cup listed ELSE @]
            /\ emitted' = {Evt(d, "merchant:online", 0, 0, k.merchantId) :
                             d \in MerchantRoom(k.merchantId)}
       ELSE /\ emitted' = ErrorTo(k.conn, "Failed to join as merchant")
            /\ UNCHANGED sessionRooms
  /\ Finish(t)
  /\ EnvUnchanged /\ StoreUnchanged /\ LimitsUnchanged
  /\ UNCHANGED << data, merchantRooms, aiLocks >>

\* ------------------------------------------------- message:send (merchant)
\* the event arrives: rate limit, validation, sanitization; getSession is issued
MerchantMessageStart(c, t, sid, content) ==
  /\ Open(c) /\ FreeSlot(t) /\ CountOk(msgLimits, c, msgMaxRequests)
  /\ msgLimits' = LimitsAfter(msgLimits, c)
  /\ IF isRateLimited(msgLimits, c, msgMaxRequests)
       THEN emitted' = ErrorTo(c, "Too many messages") /\ UNCHANGED tasks
       ELSE IF validateMessage(content) # ""
         THEN emitted' = ErrorTo(c, validateMessage(content)) /\ UNCHANGED tasks
         ELSE /\ emitted' = {}
              /\ tasks' = [tasks EXCEPT ![t] =
                            [NoTask EXCEPT !.kind = "merchantMessage",
                               !.pc = "getSession", !.conn = c, !.sid = sid,
                               !.input = content,
                               !.content = sanitizeMessage(content)]]
  /\ EnvUnchanged /\ StoreUnchanged /\ RoomsUnchanged
  /\ UNCHANGED << joinLimits, aiLocks >>

\* a store call of an operator handler throws: the catch block answers
OperatorFail(t) ==
  /\ \/ /\ tasks[t].kind = "merchantMessage"
        /\ tasks[t].pc \in {"getSession", "create", "touch", "takeover"}
        /\ emitted' = ErrorTo(tasks[t].conn, "Failed to send message")
     \/ /\ tasks[t].kind = "takeover"
        /\ emitted' = ErrorTo(tasks[t].conn, "Failed to takeover chat")
     \/ /\ tasks[t].kind = "release"
        /\ emitted' = ErrorTo(tasks[t].conn, "Failed to release takeover")
  /\ Finish(t)
  /\ EnvUnchanged /\ StoreUnchanged /\ RoomsUnchanged /\ LimitsUnchanged
  /\ UNCHANGED aiLocks

\* chatService.getSession answers in an operator handler; the ownership check
\* compares the row's merchant with socket.data.merchantId
OperatorGetSession(t, kind, nextPc) ==
  LET k == tasks[t] IN
  /\ k.kind = kind /\ k.pc = "getSession"
  /\ IF getSession(k.sid).id = 0
       THEN emitted' = ErrorTo(k.conn, "Session not found") /\ Finish(t)
       ELSE IF getSession(k.sid).merchantId # data[k.conn].merchantId
         THEN emitted' = ErrorTo(k.conn, "Unauthorized") /\ Finish(t)
         ELSE /\ emitted' = {}
              /\ tasks' = [tasks EXCEPT ![t].pc = nextPc,
                              ![t].merchantId = data[k.conn].merchantId,
                              ![t].session = Snapshot(getSession(k.sid))]
  /\ EnvUnchanged /\ StoreUnchanged /\ RoomsUnchanged /\ LimitsUnchanged
  /\ UNCHANGED aiLocks

MerchantMsgGetSession(t) == OperatorGetSession(t, "merchantMessage", "create")

\* saveMessage: prisma.chatMessage.create answers
MerchantMsgCreate(t) ==
  LET k == tasks[t] IN
  /\ k.kind = "merchantMessage" /\ k.pc = "create"
  /\ Len(messages) < MaxMessages
  /\ messages' = Append(messages,
                    NewMessage(k.sid, k.content, "merchant", k.merchantId))
  /\ tasks' = [tasks EXCEPT ![t].pc = "touch", ![t].mid = Len(messages) + 1,
                            ![t].input = <<>>, ![t].content = <<>>,
                            ![t].savedInAI = /\ sessions[k.sid].aiEnabled
                                             /\ ~sessions[k.sid].merchantTookOver]
  /\ emitted' = {}
  /\ EnvUnchanged /\ RoomsUnchanged /\ LimitsUnchanged
  /\ UNCHANGED << sessions, aiLocks >>

\* saveMessage returns: message:receive; the automatic takeover is issued
\* when the row read at the start was not taken over
MerchantMsgTouch(t) ==
  LET k == tasks[t] IN
  /\ k.kind = "merchantMessage" /\ k.pc = "touch"
  /\ sessions' = Touch(k.sid)
  /\ emitted' = ToSession(k.sid, "message:receive", k.mid, "")
  /\ IF ~k.session.merchantTookOver
       THEN tasks' = [tasks EXCEPT ![t].pc = "takeover", ![t].mid = 0]
       ELSE Finish(t)
  /\ EnvUnchanged /\ RoomsUnchanged /\ LimitsUnchanged
  /\ UNCHANGED << messages, aiLocks >>

\* chatService.merchantTakeover answers: merchant:takeover is broadcast
TakeoverApply(t, kind) ==
  LET k == tasks[t] IN
  /\ k.kind = kind /\ k.pc = "takeover"
  /\ sessions' = merchantTakeover(k.sid)
  /\ emitted' = ToSession(k.sid, "merchant:takeover", 0, "")
  /\ Finish(t)
  /\ EnvUnchanged /\ RoomsUnchanged /\ LimitsUnchanged
  /\ UNCHANGED << messages, aiLocks >>

MerchantMsgTakeover(t) == TakeoverApply(t, "merchantMessage")

\* ------------------------------------- merchant:takeover / release_takeover
\* the event arrives and getSession is issued
OperatorStart(c, t, sid, kind) ==
  /\ Open(c) /\ FreeSlot(t)
  /\ tasks' = [tasks EXCEPT ![t] =
                [NoTask EXCEPT !.kind = kind, !.pc = "getSession",
                               !.conn = c, !.sid = sid]]
  /\ emitted' = {}
  /\ EnvUnchanged /\ StoreUnchanged /\ RoomsUnchanged /\ LimitsUnchanged
  /\ UNCHANGED aiLocks

TakeoverStart(c, t, sid) == OperatorStart(c, t, sid, "takeover")
TakeoverGetSession(t) == OperatorGetSession(t, "takeover", "takeover")
TakeoverUpdate(t) == TakeoverApply(t, "takeover")

ReleaseStart(c, t, sid) == OperatorStart(c, t, sid, "release")
ReleaseGetSession(t) == OperatorGetSession(t, "release", "release")

\* chatService.releaseTakeover answers: merchant:release_takeover
ReleaseUpdate(t) ==
  LET k == tasks[t] IN
  /\ k.kind = "release" /\ k.pc = "release"
  /\ sessions' = releaseTakeover(k.sid)
  /\ emitted' = ToSession(k.sid, "merchant:release_takeover", 0, "")
  /\ Finish(t)
  /\ EnvUnchanged /\ RoomsUnchanged /\ LimitsUnchanged
  /\ UNCHANGED << messages, aiLocks >>

\* ------------------------------------------------- typing:start / typing:stop
\* the typing event sent with io.to instead of socket.to
Typing_echo(c, sid, ev) ==
  /\ Open(c)
  /\ emitted' = IF data[c].userType = "" THEN {}
                 ELSE ToSession(sid, ev, 0, data[c].userType)
  /\ UNCHANGED << now, conn, data, sessionRooms, merchantRooms,
                  activeConnections, chatEnabled, sessions, messages, aiLocks,
                  aiEnabledEnv, joinLimits, msgLimits, tasks, handshake, rlLog, sanLog, sweepDue >>

Typing(c, sid, ev) ==
  /\ Open(c)
  /\ emitted' = IF data[c].userType = "" THEN {}
                 ELSE {Evt(d, ev, sid, 0, data[c].userType) :
                         d \in SessionRoom(sid) \ {c}}
  /\ UNCHANGED << now, conn, data, sessionRooms, merchantRooms,
                  activeConnections, chatEnabled, sessions, messages, aiLocks,
                  aiEnabledEnv, joinLimits, msgLimits, tasks, handshake, rlLog, sanLog, sweepDue >>

\* ------------------------------------------- ChatService called directly
DirFrame ==
  /\ emitted' = {}
  /\ UNCHANGED << now, conn, data, sessionRooms, merchantRooms,
                  activeConnections, chatEnabled, aiLocks, aiEnabledEnv,
                  joinLimits, msgLimits, tasks, handshake, rlLog, sanLog, sweepDue >>

\* ChatService.createSession
DirCreateSession(m, p, cid) ==
  /\ Len(sessions) < MaxSessions
  /\ sessions' = Append(sessions, NewSession(m, p.name, p.email, cid))
  /\ UNCHANGED messages
  /\ DirFrame

\* ChatService.findOrCreateSession: throws, resumes or creates
DirFindOrCreateSession(m, cid, p, tok) ==
  /\ \E i \in FindFirst(m, cid) :
       IF i = 0
         THEN /\ Len(sessions) < MaxSessions
              /\ sessions' = Append(sessions, NewSession(m, p.name, p.email, cid))
         ELSE IF TokenRejected(sessions[i], tok)
           THEN UNCHANGED sessions
           ELSE sessions' = [sessions EXCEPT ![i] =
                               RefreshSession(sessions[i], p.name, p.email)]
  /\ UNCHANGED messages
  /\ DirFrame

\* ChatService.saveMessage
DirSaveMessage(sid, content, senderType) ==
  /\ sid \in 1..Len(sessions)
  /\ Len(messages) < MaxMessages
  /\ messages' = Append(messages, NewMessage(sid, content, senderType, ""))
  /\ sessions' = Touch(sid)
  /\ DirFrame

\* ChatService.merchantTakeover
DirMerchantTakeover(sid) ==
  /\ sid \in 1..Len(sessions)
  /\ sessions' = merchantTakeover(sid)
  /\ UNCHANGED messages
  /\ DirFrame

\* ChatService.releaseTakeover
DirReleaseTakeover(sid) ==
  /\ sid \in 1..Len(sessions)
  /\ sessions' = releaseTakeover(sid)
  /\ UNCHANGED messages
  /\ DirFrame

\* ChatService.toggleAI
DirToggleAI(sid, enabled) ==
  /\ sid \in 1..Len(sessions)
  /\ sessions' = toggleAI(sid, enabled)
  /\ UNCHANGED messages
  /\ DirFrame

\* ChatService.closeSession
DirCloseSession(sid) ==
  /\ sid \in 1..Len(sessions)
  /\ sessions' = closeSession(sid)
  /\ UNCHANGED messages
  /\ DirFrame

\* ---------------------------------------------------------- specifications
\* Generation: guests join merchant "X" and send customer messages; every
\* store call may throw and the provider may answer, fail or return nothing.
InitGen == Init

GenConns == {1}
GenProfiles == {[name |-> "ann", email |-> ""]}

NextGen ==
  \/ \E c \in GenConns : HandshakeStart(c, "none")
  \/ \E c \in GenConns : Disconnect(c)
  \/ \E c \in GenConns, t \in TaskIds, p \in GenProfiles :
        CustomerJoinStart(c, t, "X", p, "", 0)
  \/ \E t \in TaskIds : JoinFail(t)
  \/ \E t \in TaskIds : JoinMerchant(t)
  \/ \E t \in TaskIds : JoinCreate(t)
  \/ \E t \in TaskIds : JoinFetch(t)
  \/ \E t \in TaskIds : JoinHistory(t)
  \/ \E c \in GenConns, t \in TaskIds, sid \in SessionIds :
        CustomerMessageStart(c, t, sid, <<"h", "i">>)
  \/ \E t \in TaskIds : MsgFail(t)
  \/ \E t \in TaskIds : MsgGetSession(t)
  \/ \E t \in TaskIds : MsgMerchant(t)
  \/ \E t \in TaskIds : MsgCreate(t)
  \/ \E t \in TaskIds : MsgTouch(t)
  \/ \E t \in TaskIds : GenFail(t)
  \/ \E t \in TaskIds : GenHistory(t)
  \/ \E t \in TaskIds, found \in BOOLEAN : GenContext(t, found)
  \/ \E t \in TaskIds, text \in {ProviderText, FallbackMessage} :
        GenProvider(t, text)
  \/ \E t \in TaskIds : GenCreate(t)
  \/ \E t \in TaskIds : GenTouch(t)

SpecGen == InitGen /\ [][NextGen]_vars

\* Session directory: the methods of ChatService in any order.
InitDir == Init /\ aiEnabledEnv

NextDir ==
  \/ Tick
  \/ \E p \in Profiles : DirCreateSession("X", p, "")
  \/ \E p \in Profiles, tok \in 0..MaxSessions :
        DirFindOrCreateSession("X", "k", p, tok)
  \/ \E sid \in SessionIds : DirSaveMessage(sid, <<"h", "i">>, "customer")
  \/ \E sid \in SessionIds : DirMerchantTakeover(sid)
  \/ \E sid \in SessionIds : DirReleaseTakeover(sid)
  \/ \E sid \in SessionIds, enabled \in BOOLEAN : DirToggleAI(sid, enabled)
  \/ \E sid \in SessionIds : DirCloseSession(sid)

SpecDir == InitDir /\ [][NextDir]_vars

\* Authorization: connection 1 authenticates as operator of "X", connection
\* 2 is a guest; the operator joins the chat of "Y" and the guest the chat of
\* "X" as customers, and both send operator events for any session, one
\* handler at a time.  The provider is switched off.
InitAuth == Init /\ ~aiEnabledEnv

AuthCredential(c) == IF c = 1 THEN "tokX" ELSE "none"
AuthProfiles == {[name |-> "ann", email |-> ""]}
AuthTasks == {1}
AuthJoins(c) == IF c = 1 THEN "Y" ELSE "X"

NextAuth ==
  \/ \E c \in TwoConns : HandshakeStart(c, AuthCredential(c))
  \/ \E c \in TwoConns : HandshakeAuth(c)
  \/ \E c \in TwoConns, t \in AuthTasks, p \in AuthProfiles :
        CustomerJoinStart(c, t, AuthJoins(c), p, "", 0)
  \/ \E t \in AuthTasks : JoinFail(t)
  \/ \E t \in AuthTasks : JoinMerchant(t)
  \/ \E t \in AuthTasks : JoinCreate(t)
  \/ \E t \in AuthTasks : JoinFetch(t)
  \/ \E t \in AuthTasks : JoinHistory(t)
  \/ \E c \in TwoConns, t \in AuthTasks, sid \in SessionIds :
        MerchantMessageStart(c, t, sid, <<"o", "k">>)
  \/ \E t \in AuthTasks : OperatorFail(t)
  \/ \E t \in AuthTasks : MerchantMsgGetSession(t)
  \/ \E t \in AuthTasks : MerchantMsgCreate(t)
  \/ \E t \in AuthTasks : MerchantMsgTouch(t)
  \/ \E t \in AuthTasks : MerchantMsgTakeover(t)
  \/ \E c \in TwoConns, t \in AuthTasks, sid \in SessionIds : TakeoverStart(c, t, sid)
  \/ \E t \in AuthTasks : TakeoverGetSession(t)
  \/ \E t \in AuthTasks : TakeoverUpdate(t)
  \/ \E c \in TwoConns, t \in AuthTasks, sid \in SessionIds : ReleaseStart(c, t, sid)
  \/ \E t \in AuthTasks : ReleaseGetSession(t)
  \/ \E t \in AuthTasks : ReleaseUpdate(t)

SpecAuth == InitAuth /\ [][NextAuth]_vars

\* Rooms: guests join merchant "X" as customers and send customer messages
\* for any session, one handler at a time.  The provider is switched off.
InitRoom == Init /\ ~aiEnabledEnv

RoomProfiles == {[name |-> "ann", email |-> ""]}
RoomTasks == {1}

NextRoom ==
  \/ \E c \in TwoConns : HandshakeStart(c, "none")
  \/ \E c \in TwoConns : Disconnect(c)
  \/ \E c \in TwoConns, t \in RoomTasks, p \in RoomProfiles :
        CustomerJoinStart(c, t, "X", p, "", 0)
  \/ \E t \in RoomTasks : JoinFail(t)
  \/ \E t \in RoomTasks : JoinMerchant(t)
  \/ \E t \in RoomTasks : JoinCreate(t)
  \/ \E t \in RoomTasks : JoinFetch(t)
  \/ \E t \in RoomTasks : JoinHistory(t)
  \/ \E c \in TwoConns, t \in RoomTasks, sid \in SessionIds :
        CustomerMessageStart(c, t, sid, <<"h", "i">>)
  \/ \E t \in RoomTasks : MsgFail(t)
  \/ \E t \in RoomTasks : MsgGetSession(t)
  \/ \E t \in RoomTasks : MsgMerchant(t)
  \/ \E t \in RoomTasks : MsgCreate(t)
  \/ \E t \in RoomTasks : MsgTouch(t)

SpecRoom == InitRoom /\ [][NextRoom]_vars

\* Reconnection: a guest joins merchant "X" with the customer id "k" and any
\* token, again and again, while the clock advances.  The store is empty at
\* start, or holds a conversation of "k" from an earlier run of the server,
\* in either mode, with one message.  The provider is switched off.
StoredSession(tookOver) ==
  [id |-> 1, merchantId |-> "X", customerId |-> "k", customerName |-> "ann",
   customerEmail |-> "", customerToken |-> 1, status |-> "active",
   aiEnabled |-> ~tookOver, merchantTookOver |-> tookOver, updatedAt |-> 0]

StoredMessage ==
  [id |-> 1, sessionId |-> 1, senderId |-> "", senderType |-> "customer",
   content |-> <<"h", "i">>]

InitJoin ==
  /\ now = 0
  /\ conn = [c \in Conns |-> "new"]
  /\ data = [c \in Conns |-> NoData]
  /\ sessionRooms = [c \in Conns |-> {}]
  /\ merchantRooms = [c \in Conns |-> {}]
  /\ activeConnections = 0
  /\ chatEnabled = [m \in Merchants |-> TRUE]
  /\ \/ sessions = <<>> /\ messages = <<>>
     \/ \E tookOver \in BOOLEAN :
          sessions = <<StoredSession(tookOver)>> /\ messages = <<StoredMessage>>
  /\ aiLocks = {}
  /\ aiEnabledEnv = FALSE
  /\ joinLimits = [c \in Conns |-> NoEntry]
  /\ msgLimits = [c \in Conns |-> NoEntry]
  /\ tasks = [t \in TaskIds |-> NoTask]
  /\ handshake = [c \in Conns |-> "none"]
  /\ emitted = {}
  /\ rlLog = <<>>
  /\ sanLog = NoSanitized
  /\ sweepDue = sweepMs

JoinConns == {1}

NextJoin ==
  \/ Tick
  \/ \E c \in JoinConns : HandshakeStart(c, "none")
  \/ \E c \in JoinConns, t \in TaskIds, p \in Profiles, tok \in 0..MaxSessions :
        CustomerJoinStart(c, t, "X", p, "k", tok)
  \/ \E t \in TaskIds : JoinFail(t)
  \/ \E t \in TaskIds : JoinMerchant(t)
  \/ \E t \in TaskIds : JoinFind(t)
  \/ \E t \in TaskIds : JoinUpdate(t)
  \/ \E t \in TaskIds : JoinCreate(t)
  \/ \E t \in TaskIds : JoinFetch(t)
  \/ \E t \in TaskIds : JoinHistory(t)

SpecJoin == InitJoin /\ [][NextJoin]_vars

\* The limiter on its own: messageRateLimiter.isRateLimited is called for
\* either connection id while the clock advances and the cleanup timer
\* fires.  reset, clear and destroy have no caller outside shutdown.
RLCall(id) ==
  /\ Len(rlLog) < MaxCalls
  /\ msgLimits' = LimitsAfter(msgLimits, id)
  /\ rlLog' = Append(rlLog,
                [id |-> id,
                 at |-> now,
                 opened |-> OpensWindow(msgLimits, id),
                 limited |-> isRateLimited(msgLimits, id, msgMaxRequests),
                 count |-> msgLimits'[id].count,
                 resetTime |-> msgLimits'[id].resetTime,
                 wait |-> WaitSeconds(msgLimits, id)])
  /\ emitted' = {}
  /\ UNCHANGED << now, conn, data, sessionRooms, merchantRooms,
                  activeConnections, chatEnabled, sessions, messages, aiLocks,
                  aiEnabledEnv, joinLimits, tasks, handshake, sanLog, sweepDue >>

InitRL == Init /\ ~aiEnabledEnv

NextRL ==
  \/ Tick
  \/ Cleanup
  \/ \E id \in Conns : RLCall(id)

SpecRL == InitRL /\ [][NextRL]_vars

\* Rejections: connection 1 authenticates as operator of "X", connection 2 is
\* a guest; the guest joins "X", "Y" or the missing merchant "Q" and sends
\* customer messages, the operator sends operator events, contents are valid or
\* blank, sessions exist or not, and the chat of "X" is switched off and on;
\* one handler at a time.  The provider is switched off.
InitRej == Init /\ ~aiEnabledEnv

RejTasks == {1}
RejContents == {<<"h", "i">>, <<" ">>}
RejProfiles == {[name |-> "ann", email |-> ""]}

NextRej ==
  \/ \E c \in TwoConns : HandshakeStart(c, AuthCredential(c))
  \/ \E c \in TwoConns : HandshakeAuth(c)
  \/ \E b \in BOOLEAN : SetChatEnabled("X", b)
  \/ \E t \in RejTasks, m \in MerchantIds, p \in RejProfiles :
        CustomerJoinStart(2, t, m, p, "", 0)
  \/ \E t \in RejTasks : JoinFail(t)
  \/ \E t \in RejTasks : JoinMerchant(t)
  \/ \E t \in RejTasks : JoinCreate(t)
  \/ \E t \in RejTasks : JoinFetch(t)
  \/ \E t \in RejTasks : JoinHistory(t)
  \/ \E t \in RejTasks, sid \in SessionIds, content \in RejContents :
        CustomerMessageStart(2, t, sid, content)
  \/ \E t \in RejTasks : MsgFail(t)
  \/ \E t \in RejTasks : MsgGetSession(t)
  \/ \E t \in RejTasks : MsgMerchant(t)
  \/ \E t \in RejTasks : MsgCreate(t)
  \/ \E t \in RejTasks : MsgTouch(t)
  \/ \E t \in RejTasks, sid \in SessionIds, content \in RejContents :
        MerchantMessageStart(1, t, sid, content)
  \/ \E t \in RejTasks : OperatorFail(t)
  \/ \E t \in RejTasks : MerchantMsgGetSession(t)
  \/ \E t \in RejTasks : MerchantMsgCreate(t)
  \/ \E t \in RejTasks : MerchantMsgTouch(t)
  \/ \E t \in RejTasks : MerchantMsgTakeover(t)
  \/ \E t \in RejTasks, sid \in SessionIds : TakeoverStart(1, t, sid)
  \/ \E t \in RejTasks : TakeoverGetSession(t)
  \/ \E t \in RejTasks : TakeoverUpdate(t)
  \/ \E t \in RejTasks, sid \in SessionIds : ReleaseStart(1, t, sid)
  \/ \E t \in RejTasks : ReleaseGetSession(t)
  \/ \E t \in RejTasks : ReleaseUpdate(t)

SpecRej == InitRej /\ [][NextRej]_vars

\* Replies: one guest joins merchant "X" and sends customer messages, two
\* handlers at a time; the provider is switched on, and every store call
\* answers.  Every awaited store call is answered in the end; in
\* SpecReplyAnswered the provider's HTTP call is too.
InitReply == Init /\ aiEnabledEnv

ReplyProfiles == {[name |-> "ann", email |-> ""]}

NextReply ==
  \/ HandshakeStart(1, "none")
  \/ \E t \in TaskIds, p \in ReplyProfiles : CustomerJoinStart(1, t, "X", p, "", 0)
  \/ \E t \in TaskIds : JoinMerchant(t)
  \/ \E t \in TaskIds : JoinCreate(t)
  \/ \E t \in TaskIds : JoinFetch(t)
  \/ \E t \in TaskIds : JoinHistory(t)
  \/ \E t \in TaskIds, sid \in SessionIds :
        CustomerMessageStart(1, t, sid, <<"h", "i">>)
  \/ \E t \in TaskIds : MsgGetSession(t)
  \/ \E t \in TaskIds : MsgMerchant(t)
  \/ \E t \in TaskIds : MsgCreate(t)
  \/ \E t \in TaskIds : MsgTouch(t)
  \/ \E t \in TaskIds : GenHistory(t)
  \/ \E t \in TaskIds, found \in BOOLEAN : GenContext(t, found)
  \/ \E t \in TaskIds, text \in {ProviderText, FallbackMessage} :
        GenProvider(t, text)
  \/ \E t \in TaskIds : GenCreate(t)
  \/ \E t \in TaskIds : GenTouch(t)

\* the store answers every call a handler awaits
StoreAnswers ==
  \A t \in TaskIds :
    /\ WF_vars(JoinMerchant(t)) /\ WF_vars(JoinCreate(t))
    /\ WF_vars(JoinFetch(t)) /\ WF_vars(JoinHistory(t))
    /\ WF_vars(MsgGetSession(t)) /\ WF_vars(MsgMerchant(t))
    /\ WF_vars(MsgCreate(t)) /\ WF_vars(MsgTouch(t))
    /\ WF_vars(GenHistory(t))
    /\ WF_vars(\E found \in BOOLEAN : GenContext(t, found))
    /\ WF_vars(GenCreate(t)) /\ WF_vars(GenTouch(t))

\* the provider answers, or the HTTP call fails
ProviderAnswers ==
  \A t \in TaskIds :
    WF_vars(\E text \in {ProviderText, FallbackMessage} : GenProvider(t, text))

\* axios.post carries no timeout: the call may stay pending
SpecReply == InitReply /\ [][NextReply]_vars /\ StoreAnswers

SpecReplyAnswered == SpecReply /\ ProviderAnswers

\* Operator messages: connection 1 authenticates as operator of "X" and
\* connection 2 is a guest who joins "X"; the operator joins as merchant,
\* sends messages and releases takeovers, two handlers at a time, and store
\* calls of the operator handlers may throw.  The provider is switched off.
InitOp == Init /\ ~aiEnabledEnv

OpProfiles == {[name |-> "ann", email |-> ""]}

NextOp ==
  \/ \E c \in TwoConns : HandshakeStart(c, AuthCredential(c))
  \/ \E c \in TwoConns : HandshakeAuth(c)
  \/ \E t \in TaskIds, p \in OpProfiles : CustomerJoinStart(2, t, "X", p, "", 0)
  \/ \E t \in TaskIds : JoinMerchant(t)
  \/ \E t \in TaskIds : JoinCreate(t)
  \/ \E t \in TaskIds : JoinFetch(t)
  \/ \E t \in TaskIds : JoinHistory(t)
  \/ \E t \in TaskIds : MerchantJoinStart(1, t)
  \/ \E t \in TaskIds : MerchantJoinList(t, TRUE)
  \/ \E t \in TaskIds, sid \in SessionIds :
        MerchantMessageStart(1, t, sid, <<"o", "k">>)
  \/ \E t \in TaskIds : OperatorFail(t)
  \/ \E t \in TaskIds : MerchantMsgGetSession(t)
  \/ \E t \in TaskIds : MerchantMsgCreate(t)
  \/ \E t \in TaskIds : MerchantMsgTouch(t)
  \/ \E t \in TaskIds : MerchantMsgTakeover(t)
  \/ \E t \in TaskIds, sid \in SessionIds : ReleaseStart(1, t, sid)
  \/ \E t \in TaskIds : ReleaseGetSession(t)
  \/ \E t \in TaskIds : ReleaseUpdate(t)

SpecOp == InitOp /\ [][NextOp]_vars

\* --------------------------------------------- two messages of one socket
\* One guest socket emits message:send twice into one conversation, first
\* FirstContent and then SecondContent; each event runs its own handler, and
\* the handlers' store calls are answered in any order.
InitOrd == Init /\ ~aiEnabledEnv

OrdProfiles == {[name |-> "ann", email |-> ""]}
FirstContent == <<"a">>
SecondContent == <<"b">>

\* a message:send with this content has been received for conversation sid
IssuedInto(content, sid) ==
  \/ \E t \in TaskIds : /\ tasks[t].kind = "customerMessage"
                         /\ tasks[t].content = content /\ tasks[t].sid = sid
  \/ \E i \in 1..Len(messages) : /\ messages[i].content = content
                                  /\ messages[i].sessionId = sid

Issued(content) == \E sid \in SessionIds : IssuedInto(content, sid)

NextOrd ==
  \/ HandshakeStart(1, "none")
  \/ \E t \in TaskIds, p \in OrdProfiles : CustomerJoinStart(1, t, "X", p, "", 0)
  \/ \E t \in TaskIds : \/ JoinMerchant(t)
                         \/ JoinCreate(t)
                         \/ JoinFetch(t)
                         \/ JoinHistory(t)
  \/ \E t \in TaskIds, sid \in SessionIds :
       /\ sid <= Len(sessions) /\ ~Issued(FirstContent)
       /\ CustomerMessageStart(1, t, sid, FirstContent)
  \/ \E t \in TaskIds, sid \in SessionIds :
       /\ IssuedInto(FirstContent, sid) /\ ~Issued(SecondContent)
       /\ CustomerMessageStart(1, t, sid, SecondContent)
  \/ \E t \in TaskIds : \/ MsgGetSession(t)
                         \/ MsgMerchant(t)
                         \/ MsgCreate(t)
                         \/ MsgTouch(t)

SpecOrd == InitOrd /\ [][NextOrd]_vars


\* ------------------------------------------------------------- handshakes
\* Sockets connect with any credential and disconnect; the credential lookup
\* of one handshake is answered while other handshakes arrive.
InitCap == Init /\ ~aiEnabledEnv

NextCap ==
  \/ \E c \in Conns, cred \in Credentials : HandshakeStart(c, cred)
  \/ \E c \in Conns : HandshakeAuth(c)
  \/ \E c \in Conns : Disconnect(c)

SpecCap == InitCap /\ [][NextCap]_vars


\* ---------------------------------------------------------------- presence
\* Two sockets authenticated for merchant X and one guest socket: every
\* socket may emit merchant:join, the guest emits customer:join for X, as a
\* new or as a returning customer, and every socket may disconnect.
InitPres == Init /\ ~aiEnabledEnv

PresCredential(c) == IF c \in TwoConns THEN "tokX" ELSE "none"
\* the customer:join profile of the scenarios below
OneProfile == {[name |-> "ann", email |-> ""]}

NextPres ==
  \/ \E c \in Conns : HandshakeStart(c, PresCredential(c))
  \/ \E c \in Conns : HandshakeAuth(c)
  \/ \E c \in Conns : Disconnect(c)
  \/ \E c \in Conns, t \in TaskIds : MerchantJoinStart(c, t)
  \/ \E t \in TaskIds, ok \in BOOLEAN : MerchantJoinList(t, ok)
  \/ \E t \in TaskIds, p \in OneProfile, cid \in CustomerIds, tok \in 0..1 :
       CustomerJoinStart(3, t, "X", p, cid, tok)
  \/ \E t \in TaskIds : \/ JoinMerchant(t)
                         \/ JoinFind(t)
                         \/ JoinUpdate(t)
                         \/ JoinCreate(t)
                         \/ JoinFetch(t)
                         \/ JoinHistory(t)

SpecPres == InitPres /\ [][NextPres]_vars


\* ----------------------------------------------------------------- history
\* A conversation of customer "k" with merchant X, in automated mode, holds
\* any number of messages from earlier; the customer resumes it or joins
\* anew, and sends messages into it; the provider is switched on.
StoredMessages(n) ==
  [i \in 1..n |-> [id |-> i, sessionId |-> 1, senderId |-> "",
                    senderType |-> IF i % 2 = 1 THEN "customer" ELSE "ai",
                    content |-> <<"h", "i">>]]

InitHist ==
  /\ now = 0
  /\ conn = [c \in Conns |-> "new"]
  /\ data = [c \in Conns |-> NoData]
  /\ sessionRooms = [c \in Conns |-> {}]
  /\ merchantRooms = [c \in Conns |-> {}]
  /\ activeConnections = 0
  /\ chatEnabled = [m \in Merchants |-> TRUE]
  /\ sessions = <<StoredSession(FALSE)>>
  /\ \E n \in 0..MaxMessages : messages = StoredMessages(n)
  /\ aiLocks = {}
  /\ aiEnabledEnv = TRUE
  /\ joinLimits = [c \in Conns |-> NoEntry]
  /\ msgLimits = [c \in Conns |-> NoEntry]
  /\ tasks = [t \in TaskIds |-> NoTask]
  /\ handshake = [c \in Conns |-> "none"]
  /\ emitted = {}
  /\ rlLog = <<>>
  /\ sanLog = NoSanitized
  /\ sweepDue = sweepMs

NextHist ==
  \/ HandshakeStart(1, "none")
  \/ \E t \in TaskIds, p \in OneProfile, cid \in CustomerIds :
       CustomerJoinStart(1, t, "X", p, cid, 1)
  \/ \E t \in TaskIds : \/ JoinMerchant(t)
                         \/ JoinFind(t)
                         \/ JoinUpdate(t)
                         \/ JoinCreate(t)
                         \/ JoinFetch(t)
                         \/ JoinHistory(t)
  \/ \E t \in TaskIds : CustomerMessageStart(1, t, 1, <<"h", "i">>)
  \/ \E t \in TaskIds : \/ MsgGetSession(t)
                         \/ MsgMerchant(t)
                         \/ MsgCreate(t)
                         \/ MsgTouch(t)
                         \/ GenHistory(t)
                         \/ GenCreate(t)
                         \/ GenTouch(t)
  \/ \E t \in TaskIds, found \in BOOLEAN : GenContext(t, found)
  \/ \E t \in TaskIds, text \in {ProviderText, FallbackMessage} :
        GenProvider(t, text)

SpecHist == InitHist /\ [][NextHist]_vars


\* ---------------------------------------------------- sanitizeMessage alone
\* sanitizeMessage is called with any short text over the characters it
\* treats specially, a letter and a blank, or with any text over a letter and
\* "<" up to one character past the length cap; its result may be passed to
\* it again.
SanLen == 3

SanAlphabet == {"a", " ", "&", "<", ">", "\"", "'", "/"}

SanInputs ==
  UNION {[1..n -> SanAlphabet] : n \in 0..SanLen}
    \cup UNION {[1..n -> {"a", "<"}] : n \in 0..(MAX_MESSAGE_LENGTH + 1)}

SanFrame ==
  UNCHANGED << now, conn, data, sessionRooms, merchantRooms, activeConnections,
               chatEnabled, sessions, messages, aiLocks, aiEnabledEnv,
               joinLimits, msgLimits, tasks, handshake, emitted, rlLog, sweepDue >>

Sanitize(content) ==
  /\ ~sanLog.called
  /\ sanLog' = [NoSanitized EXCEPT !.called = TRUE, !.input = content,
                                   !.output = sanitizeMessage(content)]
  /\ SanFrame

SanitizeAgain ==
  /\ sanLog.called /\ ~sanLog.twice
  /\ sanLog' = [sanLog EXCEPT !.twice = TRUE,
                              !.again = sanitizeMessage(sanLog.output)]
  /\ SanFrame

InitSan == Init /\ ~aiEnabledEnv

NextSan ==
  \/ \E content \in SanInputs : Sanitize(content)
  \/ SanitizeAgain

SpecSan == InitSan /\ [][NextSan]_vars


\* ------------------------------------------------------- message contents
\* The stored conversation of X: its customer resumes it and sends texts
\* with blanks and encoded characters, the operator of X answers with the
\* same texts, and the provider returns a text with markup.  One handler
\* runs at a time.
MsgContents == {<<" ">>, <<" ", "<">>, <<"<", "'">>}
MarkupText == <<"<", "b", ">">>

NextMsg ==
  \/ \E c \in TwoConns : HandshakeStart(c, AuthCredential(c))
  \/ \E c \in TwoConns : HandshakeAuth(c)
  \/ \E t \in {1}, p \in OneProfile : CustomerJoinStart(2, t, "X", p, "k", 1)
  \/ \E t \in {1} : \/ JoinMerchant(t)
                         \/ JoinFind(t)
                         \/ JoinUpdate(t)
                         \/ JoinFetch(t)
                         \/ JoinHistory(t)
  \/ \E t \in {1}, content \in MsgContents :
       \/ CustomerMessageStart(2, t, 1, content)
       \/ MerchantMessageStart(1, t, 1, content)
  \/ \E t \in {1} : \/ MsgGetSession(t)
                         \/ MsgMerchant(t)
                         \/ MsgCreate(t)
                         \/ MsgTouch(t)
                         \/ GenHistory(t)
                         \/ GenCreate(t)
                         \/ GenTouch(t)
                         \/ MerchantMsgGetSession(t)
                         \/ MerchantMsgCreate(t)
                         \/ MerchantMsgTouch(t)
                         \/ MerchantMsgTakeover(t)
  \/ \E t \in {1}, found \in BOOLEAN : GenContext(t, found)
  \/ \E t \in {1}, text \in {MarkupText, FallbackMessage} :
        GenProvider(t, text)

SpecMsg == InitHist /\ [][NextMsg]_vars


\* ------------------------------------------------------------------ claims
\* the handlers of message:send (customer) that are inside the try block of
\* the generation for a session, and those awaiting the provider
Generating(sid) ==
  {t \in TaskIds : /\ tasks[t].kind = "customerMessage" /\ tasks[t].sid = sid
                   /\ tasks[t].pc \in {"history", "context", "provider",
                                        "aiCreate", "aiTouch"}}
AwaitingProvider(sid) ==
  {t \in Generating(sid) : tasks[t].pc = "provider"}

\* C1: for every conversation at most one text-generation provider call is
\* in flight, in every interleaving of the customer message handlers.
C1_OneProviderCall ==
  \A sid \in SessionIds : Cardinality(AwaitingProvider(sid)) <= 1

\* C1 witness: a provider call is in flight while a second customer message
\* for the same conversation reaches the lock check.
C1_Witness ==
  \E t, u \in TaskIds :
    /\ t # u /\ tasks[t].pc = "provider"
    /\ tasks[u].kind = "customerMessage" /\ tasks[u].pc = "touch"
    /\ tasks[u].sid = tasks[t].sid
    /\ tasks[u].session.aiEnabled /\ ~tasks[u].session.merchantTookOver

\* C2: the generation lock of a conversation is held exactly while one
\* handler is inside the generation for it; with no such handler in flight
\* the lock is free, whatever exit path the last generation took.
C2_LockReleased ==
  \A sid \in SessionIds :
    /\ sid \in aiLocks <=> Generating(sid) # {}
    /\ Cardinality(Generating(sid)) <= 1

\* C2 witness: no handler is in flight, no lock is held, and the stored
\* messages show a generation that ended with the provider failing.
C2_Witness ==
  /\ \A t \in TaskIds : Idle(t)
  /\ aiLocks = {}
  /\ \E i \in 1..Len(messages) :
       messages[i].senderType = "ai" /\ messages[i].content = FallbackMessage

\* C3: every conversation has exactly one of aiEnabled and merchantTookOver
\* true, after any sequence of the operations of the session directory.
C3_ExactlyOneMode ==
  \A i \in 1..Len(sessions) :
    sessions[i].aiEnabled # sessions[i].merchantTookOver

\* a step in which the operator handler t (takeover, release or operator
\* message) changes a stored session or stores a message
OperatorEffect(t) ==
  /\ tasks[t].kind \in {"takeover", "release", "merchantMessage"}
  /\ tasks'[t] # tasks[t]
  /\ sessions' # sessions \/ messages' # messages

\* C4: a connection authenticated as operator of merchant X never causes a
\* takeover, a release or a persisted operator message on a conversation
\* owned by another merchant, whatever it emitted before.
C4_OperatorConfined ==
  [][\A t \in TaskIds :
       (OperatorEffect(t) /\ OperatorOf(tasks[t].conn) # "")
         => sessions[tasks[t].sid].merchantId = OperatorOf(tasks[t].conn)]_vars

\* C5: a connection admitted as guest never causes a takeover, a release or
\* a message persisted with sender kind operator, whatever it emitted before.
C5_GuestNeverOperates ==
  [][\A t \in TaskIds :
       OperatorEffect(t) => OperatorOf(tasks[t].conn) # ""]_vars

\* C6: a customer message is persisted only when the sending connection is
\* a member of the target conversation's group.
C6_CustomerMustBeMember ==
  [][\A t \in TaskIds :
       ( /\ tasks[t].kind = "customerMessage" /\ tasks[t].pc = "create"
         /\ tasks'[t].pc = "touch"
         /\ Open(tasks[t].conn) )
         => tasks[t].conn \in SessionRoom(tasks[t].sid)]_vars

\* C7: a connection becomes a member of a conversation's group only by
\* joining that conversation as its customer or as an operator connection
\* of the owning merchant.
C7_GroupMembers ==
  [][\A d \in Conns : \A i \in sessionRooms'[d] \ sessionRooms[d] :
       \/ OperatorOf(d) = sessions'[i].merchantId
       \/ \E t \in TaskIds :
            /\ tasks[t].kind = "customerJoin" /\ tasks[t].conn = d
            /\ tasks[t].pc \in {"update", "create"}
            /\ tasks'[t].pc = "fetch" /\ tasks'[t].sid = i]_vars

\* the join handler t is at the token check of findOrCreateSession
AtTokenCheck(t) ==
  /\ tasks[t].kind = "customerJoin" /\ tasks[t].pc = "find"
  /\ FindFirst(tasks[t].merchantId, tasks[t].customerId) # {0}

\* every conversation findFirst may return carries a secret that differs
\* from the presented one (0: none presented)
TokenMismatch(t) ==
  /\ AtTokenCheck(t)
  /\ \A i \in FindFirst(tasks[t].merchantId, tasks[t].customerId) :
       sessions[i].customerToken # 0 /\ sessions[i].customerToken # tasks[t].token

\* the only conversation findFirst may return carries the presented secret
TokenMatch(t, i) ==
  /\ AtTokenCheck(t)
  /\ FindFirst(tasks[t].merchantId, tasks[t].customerId) = {i}
  /\ sessions[i].customerToken = tasks[t].token

\* C8: a customer join whose customerId resolves to a conversation with a
\* reconnection secret, presenting no secret or a different one, is
\* rejected: no conversation is created or changed, the connection is
\* enrolled in no group by it, and all it receives is one error event; the
\* steps of the join before the token check change none of these and send
\* nothing.
C8_MismatchRejected ==
  [][/\ \A t \in TaskIds :
       (TokenMismatch(t) /\ tasks'[t] # tasks[t])
         => /\ tasks'[t] = NoTask
            /\ sessions' = sessions /\ messages' = messages
            /\ sessionRooms' = sessionRooms /\ merchantRooms' = merchantRooms
            /\ data' = data
            /\ emitted' \subseteq
                 {Evt(tasks[t].conn, "error", 0, 0, "Failed to join chat")}
            /\ Open(tasks[t].conn) => emitted' # {}
     /\ \A t \in TaskIds :
          (tasks'[t].kind = "customerJoin" /\ tasks'[t].pc \in {"merchant", "find"}
             /\ tasks'[t] # tasks[t])
            => /\ sessions' = sessions /\ messages' = messages
               /\ sessionRooms' = sessionRooms /\ merchantRooms' = merchantRooms
               /\ data' = data /\ emitted' = {}]_vars

\* C8 witness: a join of customer "k" is at the token check against a
\* stored conversation, presenting a different secret.
C8_Witness ==
  \E t \in TaskIds : TokenMismatch(t) /\ tasks[t].token # 0 /\ Open(tasks[t].conn)

\* Resumption of the most recently active conversation: a customer join
\* presenting the reconnection secret of the one conversation findFirst
\* returns goes on with it (no new record), refreshes its name, email
\* and activity timestamp and leaves its mode, its other fields, the other
\* conversations and the messages unchanged, unless a store call throws.
C9_MatchResumes ==
  [][\A t \in TaskIds :
       /\ \A i \in SessionIds :
            (TokenMatch(t, i) /\ tasks'[t] # tasks[t] /\ tasks'[t] # NoTask)
              => /\ tasks'[t].pc = "update" /\ tasks'[t].sid = i
                 /\ sessions' = sessions /\ messages' = messages
       /\ ( /\ tasks[t].kind = "customerJoin" /\ tasks[t].pc = "update"
            /\ tasks'[t] # tasks[t] /\ tasks'[t] # NoTask )
            => /\ tasks'[t].sid = tasks[t].sid
               /\ data'[tasks[t].conn].sessionId = tasks[t].sid
               /\ messages' = messages
               /\ sessions' = [sessions EXCEPT ![tasks[t].sid] =
                                 [@ EXCEPT !.customerName = tasks[t].name,
                                           !.customerEmail = tasks[t].email,
                                           !.updatedAt = now]]
               /\ Open(tasks[t].conn) =>
                    emitted' = {Evt(tasks[t].conn, "session:created",
                                    tasks[t].sid, 0, "")}]_vars

\* a resumption has happened: session:created has just been sent for a resumed conversation
\* that is operator-controlled, has a stored message, and whose name was
\* refreshed.
C9_Witness ==
  \E e \in emitted :
    /\ e.ev = "session:created"
    /\ sessions[e.sid].merchantTookOver
    /\ sessions[e.sid].customerName = "bob"
    /\ getSessionMessages(e.sid) # <<>>

\* conversation i is an active conversation of the joining customer with
\* the merchant, and the join presents its reconnection secret
PresentsSecretOf(t, i) ==
  /\ tasks[t].kind = "customerJoin" /\ tasks[t].pc = "find"
  /\ i \in 1..Len(sessions)
  /\ sessions[i].merchantId = tasks[t].merchantId
  /\ sessions[i].customerId = tasks[t].customerId
  /\ sessions[i].status = "active"
  /\ sessions[i].customerToken = tasks[t].token

\* C9: a customer join carrying a customerId for which an active
\* conversation with the same merchant exists, presenting that
\* conversation's reconnection secret, resolves to that conversation: the
\* lookup and token check of findOrCreateSession go on to the update of that
\* very record.
C9_ResumesPresented ==
  [][\A t \in TaskIds : \A i \in SessionIds :
       (PresentsSecretOf(t, i) /\ JoinFind(t))
         => tasks'[t].pc = "update" /\ tasks'[t].sid = i]_vars

\* the calls of the window that call i of the log belongs to: those for the
\* same id since the last call that opened a window
WindowStart(i) ==
  CHOOSE j \in 1..i :
    /\ rlLog[j].id = rlLog[i].id /\ rlLog[j].opened
    /\ \A k \in (j+1)..i : rlLog[k].id = rlLog[i].id => ~rlLog[k].opened

PositionInWindow(i) ==
  Cardinality({k \in WindowStart(i)..i : rlLog[k].id = rlLog[i].id})

\* C10: per connection, the first msgMaxRequests calls of isRateLimited in
\* a window are allowed and every later call in that window is limited; the
\* count goes up by one with each call and the window's expiry stays the one
\* set by the call that opened it.
C10_FixedWindow ==
  \A i \in 1..Len(rlLog) :
    /\ rlLog[i].limited = (PositionInWindow(i) > msgMaxRequests)
    /\ rlLog[i].count = PositionInWindow(i)
    /\ rlLog[i].resetTime = rlLog[WindowStart(i)].resetTime

\* C10 witness: a connection was limited at its call msgMaxRequests + 2 of a
\* window, made after the clock advanced inside the window, and a later
\* call of the same connection opened the next window.
C10_Witness ==
  \E i, j \in 1..Len(rlLog) :
    /\ i < j /\ rlLog[i].id = rlLog[j].id
    /\ rlLog[i].limited /\ PositionInWindow(i) = msgMaxRequests + 2
    /\ rlLog[j].opened /\ rlLog[j].resetTime > rlLog[i].resetTime

\* the call before call i of the log made for the same id (0: none)
PreviousCall(i) ==
  LET before == {j \in 1..(i-1) : rlLog[j].id = rlLog[i].id}
  IN IF before = {} THEN 0 ELSE CHOOSE j \in before : \A k \in before : k <= j

\* C11: a call of isRateLimited made at or after the expiry (window start +
\* windowMs) of the window of the previous call for the same id is allowed
\* and opens a new window with count 1.
C11_ExpiryOpensWindow ==
  \A i \in 1..Len(rlLog) :
    (PreviousCall(i) # 0 /\ rlLog[i].at >= rlLog[PreviousCall(i)].resetTime)
      => ~rlLog[i].limited /\ rlLog[i].opened /\ rlLog[i].count = 1

\* the answer the store is about to give makes handler t reject its event
Rejected(t) ==
  LET k == tasks[t] IN
  \/ /\ k.kind = "customerJoin" /\ k.pc = "merchant"
     /\ (k.merchantId \notin Merchants \/ ~chatEnabled[k.merchantId])
  \/ /\ k.kind = "customerMessage" /\ k.pc = "getSession"
     /\ getSession(k.sid).id = 0
  \/ /\ k.kind = "customerMessage" /\ k.pc = "merchant"
     /\ ~chatEnabled[k.session.merchantId]
  \/ /\ k.kind \in {"merchantMessage", "takeover", "release"}
     /\ k.pc = "getSession"
     /\ \/ getSession(k.sid).id = 0
        \/ getSession(k.sid).merchantId # data[k.conn].merchantId

\* this step changes no record and sends one error event, to c alone
OnlyErrorTo(c) ==
  /\ sessions' = sessions /\ messages' = messages
  /\ \A e \in emitted' : e.to = c /\ e.ev = "error"
  /\ Cardinality(emitted') = IF Open(c) THEN 1 ELSE 0

\* C12: a join, message, takeover or release event that is rejected (rate
\* limit, invalid content, merchant missing or chat disabled, conversation
\* not found, ownership mismatch) creates and changes no conversation or
\* message record, broadcasts nothing, starts or continues no handler work,
\* and sends exactly one error event, to the originating connection.
C12_RejectionClean ==
  [][/\ \A t \in TaskIds :
          (Rejected(t) /\ tasks'[t] # tasks[t])
            => tasks'[t] = NoTask /\ OnlyErrorTo(tasks[t].conn)
     /\ \A c \in Conns :
          ( /\ joinLimits' # joinLimits /\ joinLimits' = LimitsAfter(joinLimits, c)
            /\ isRateLimited(joinLimits, c, joinMaxRequests) )
            => tasks' = tasks /\ OnlyErrorTo(c)
     /\ \A c \in Conns :
          ( /\ msgLimits' # msgLimits /\ msgLimits' = LimitsAfter(msgLimits, c)
            /\ (isRateLimited(msgLimits, c, msgMaxRequests) \/ tasks' = tasks) )
            => tasks' = tasks /\ OnlyErrorTo(c)]_vars

\* C12 witness: an operator event has just been refused for ownership while
\* conversations and messages are stored.
C12_Witness ==
  /\ \E e \in emitted : e.ev = "error" /\ e.msg = "Unauthorized"
  /\ sessions # <<>> /\ messages # <<>>

\* the automated replies stored for conversation sid
AiReplies(sid) ==
  {m \in 1..Len(messages) :
     messages[m].sessionId = sid /\ messages[m].senderType = "ai"}

Automated(sid) ==
  sessions[sid].aiEnabled /\ ~sessions[sid].merchantTookOver

\* handler t has stored a customer message for a conversation in automated
\* mode whose generation lock is free, and is about to broadcast it
AutoStart(t) ==
  /\ tasks[t].kind = "customerMessage" /\ tasks[t].pc = "touch"
  /\ aiEnabledEnv
  /\ Automated(tasks[t].sid)
  /\ tasks[t].sid \notin aiLocks

\* the n-th reply of conversation sid has just been broadcast
ReplyDelivered(sid, n) ==
  /\ Cardinality(AiReplies(sid)) = n
  /\ \E m \in AiReplies(sid) :
       /\ \A o \in AiReplies(sid) : o <= m
       /\ emitted = ToSession(sid, "ai:response", m, "")
  /\ Automated(sid)
  /\ sid \notin aiLocks

\* C13: a valid customer message for a conversation in automated mode with
\* no generation in flight is stored and broadcast to the conversation
\* group and starts a generation; that generation stores and broadcasts
\* exactly one automated reply, and the conversation is in automated mode
\* afterwards.
C13_MessageThenOneReply ==
  /\ [][/\ \A t \in TaskIds :
          (AutoStart(t) /\ tasks'[t] # tasks[t])
            => /\ messages[tasks[t].mid].sessionId = tasks[t].sid
               /\ messages[tasks[t].mid].senderType = "customer"
               /\ ToSession(tasks[t].sid, "message:receive", tasks[t].mid, "")
                    \subseteq emitted'
               /\ tasks'[t].pc = "history"
               /\ messages' = messages
     /\ \A sid \in SessionIds :
          AiReplies(sid)' # AiReplies(sid)
            => /\ Cardinality(AiReplies(sid)') = Cardinality(AiReplies(sid)) + 1
               /\ \E t \in TaskIds :
                    /\ tasks[t].sid = sid /\ tasks[t].pc = "aiCreate"
                    /\ tasks'[t].pc = "aiTouch"]_vars
  /\ \A t \in TaskIds : \A sid \in SessionIds : \A n \in 0..MaxMessages :
       (AutoStart(t) /\ tasks[t].sid = sid /\ Cardinality(AiReplies(sid)) = n)
         ~> ReplyDelivered(sid, n + 1)

\* handler t has stored a customer message for a conversation whose
\* generation lock is held, and is about to broadcast it
LockedStart(t) ==
  /\ tasks[t].kind = "customerMessage" /\ tasks[t].pc = "touch"
  /\ tasks[t].sid \in aiLocks

\* the step of handler t stores nothing more, broadcasts the stored message
\* and nothing else, and ends the handler without touching the lock
BroadcastOnly(t) ==
  /\ messages[tasks[t].mid].sessionId = tasks[t].sid
  /\ messages[tasks[t].mid].senderType = "customer"
  /\ messages' = messages
  /\ emitted' = ToSession(tasks[t].sid, "message:receive", tasks[t].mid, "")
  /\ tasks'[t] = NoTask
  /\ aiLocks' = aiLocks

\* handler t issues the provider's HTTP call in this step
CallsProvider(t) == tasks'[t].pc = "provider" /\ tasks[t].pc # "provider"

\* a provider call is issued by the one handler that holds the lock
CallUnderLock(t) ==
  /\ tasks[t].pc = "context"
  /\ tasks[t].sid \in aiLocks
  /\ Generating(tasks[t].sid) = {t}

C15_GenerationTerminates ==
  \A sid \in SessionIds : \A n \in 0..MaxMessages :
    ( /\ sid \in aiLocks /\ Cardinality(AiReplies(sid)) = n
      /\ \E t \in TaskIds : /\ tasks[t].kind = "customerMessage"
                            /\ tasks[t].sid = sid
                            /\ tasks[t].pc \in {"history", "context", "provider"} )
      ~> (sid \notin aiLocks /\ Cardinality(AiReplies(sid)) = n + 1)

\* operator handler t has stored its message and the store answers
OperatorMessageStored(t) ==
  /\ tasks[t].kind = "merchantMessage" /\ tasks[t].pc = "touch"
  /\ tasks'[t] # tasks[t] /\ ~OperatorFail(t)

\* operator handler t has broadcast its message into a conversation it read
\* as automated, and the takeover write is answered
OperatorTakeoverWritten(t) ==
  /\ tasks[t].kind = "merchantMessage" /\ tasks[t].pc = "takeover"
  /\ tasks'[t] # tasks[t] /\ ~OperatorFail(t)

RowOf(content) ==
  IF \E i \in 1..Len(messages) : messages[i].content = content
    THEN CHOOSE i \in 1..Len(messages) : messages[i].content = content
    ELSE 0

\* handler t broadcasts the message it stored
Broadcasts(t) ==
  /\ tasks[t].kind = "customerMessage" /\ tasks[t].pc = "touch"
  /\ tasks'[t] # tasks[t]
  /\ emitted' = ToSession(tasks[t].sid, "message:receive", tasks[t].mid, "")

\* C17: two messages one connection issues in order into one conversation
\* are stored in that order (the second never gets a row while the first has
\* none or a later one), and a message is never broadcast while a message
\* of the conversation stored before it still waits for its broadcast.
C17_OrderKept ==
  /\ [](RowOf(SecondContent) # 0
         => RowOf(FirstContent) # 0 /\ RowOf(FirstContent) < RowOf(SecondContent))
  /\ [][\A t \in TaskIds :
         Broadcasts(t)
           => ~\E u \in TaskIds : /\ tasks[u].kind = "customerMessage"
                                  /\ tasks[u].pc = "touch"
                                  /\ tasks[u].sid = tasks[t].sid
                                  /\ tasks[u].mid < tasks[t].mid]_vars

\* the connections admitted and not yet disconnected
Admitted == {c \in Conns : Open(c)}

\* C18: the admitted connections never outnumber MAX_CONNECTIONS, and a
\* handshake that arrives while the cap is reached is refused.
C18_CapRespected ==
  /\ [](Cardinality(Admitted) <= MAX_CONNECTIONS)
  /\ [][\A c \in Conns :
         (conn[c] = "new" /\ conn'[c] # "new"
            /\ Cardinality(Admitted) >= MAX_CONNECTIONS)
           => conn'[c] = "closed"]_vars

\* the handshake of c ends in this step
HandshakeEnds(c) == conn[c] \in {"new", "auth"} /\ conn'[c] \in {"open", "closed"}

\* C19: of the handshakes that passed the connection limit, one without a
\* credential is admitted as guest at once; one whose token resolves to a live
\* auth session of a merchant's user is admitted, if at all, as operator of
\* that merchant; one whose token is unknown or expired is refused, never
\* admitted; a handshake whose lookup throws is refused; and nothing but the
\* cap refuses a handshake before its lookup.
C19_HandshakeOutcome ==
  [][\A c \in Conns :
       HandshakeEnds(c) =>
         /\ conn[c] = "new" /\ conn'[c] = "open"
              => /\ handshake[c] = "none"
                 /\ data'[c].userType = "" /\ data'[c].merchantId = ""
         /\ conn[c] = "new" /\ conn'[c] = "closed"
              => activeConnections >= MAX_CONNECTIONS
         /\ conn[c] = "auth" /\ handshake[c] \in {"tokX", "tokY"} /\ conn'[c] = "open"
              => /\ data'[c].userType = "merchant"
                 /\ data'[c].merchantId = (IF handshake[c] = "tokX" THEN "X" ELSE "Y")
         /\ conn[c] = "auth" /\ handshake[c] \in {"unknown", "expired"}
              => conn'[c] = "closed" /\ handshake'[c] \in {"invalid", "error"}
         /\ conn[c] = "auth" /\ handshake'[c] = "error"
              => conn'[c] = "closed"
         /\ conn[c] = "auth" /\ handshake[c] \in {"tokX", "tokY", "tokU"}
              => conn'[c] = "open" \/ handshake'[c] = "error"]_vars

\* C19 witness: one connection is admitted as operator of X, one as guest,
\* and a third was refused for its unknown or expired token.
C19_Witness ==
  \E c, d, e \in Conns :
    /\ Open(c) /\ handshake[c] = "tokX"
    /\ data[c].userType = "merchant" /\ data[c].merchantId = "X"
    /\ Open(d) /\ handshake[d] = "none" /\ data[d].userType = ""
    /\ conn[e] = "closed" /\ handshake[e] = "invalid"

\* C20: a connection admitted as operator of a merchant keeps that role and
\* that merchant id in its socket data for as long as it is connected,
\* whatever events it emits.
C20_IdentityFixed ==
  \A c \in Conns :
    (Open(c) /\ OperatorOf(c) # "")
      => data[c].userType = "merchant" /\ data[c].merchantId = OperatorOf(c)

\* the live connections holding the operator role of merchant m
LiveOperators(m) ==
  {d \in Conns : Open(d) /\ data[d].userType = "merchant" /\ data[d].merchantId = m}

\* merchant:offline of merchant m as delivered to the members of its
\* presence group other than the leaving connection c
OfflineTo(c, m) ==
  {Evt(d, "merchant:offline", 0, 0, m) : d \in MerchantRoom(m) \ {c}}

\* C21: when a connection disconnects, merchant:offline goes to the presence
\* group of merchant m exactly when the connection was the last live operator
\* connection of m; while another operator connection of m is live, the
\* disconnect broadcasts nothing.
C21_OfflineOnlyForLast ==
  [][\A c \in Conns :
       (conn[c] = "open" /\ conn'[c] = "closed") =>
         IF \E m \in Merchants : LiveOperators(m) = {c}
           THEN emitted' = OfflineTo(c, data[c].merchantId)
           ELSE emitted' = {}]_vars

\* customer join handler t resolves its conversation in this step and emits
\* session:created
Resolves(t) ==
  /\ tasks[t].kind = "customerJoin" /\ tasks[t].pc \in {"create", "update"}
  /\ tasks'[t].kind = "customerJoin" /\ tasks'[t].pc = "fetch"

\* the operator connections that joined the presence group of merchant m
PresentOperators(m) ==
  {d \in MerchantRoom(m) : data[d].userType = "merchant"}

\* C22: in the step in which a customer join creates or resumes a
\* conversation of merchant m and emits session:created, every operator
\* connection already in m's presence group is a member of the
\* conversation's group; and a connection keeps its conversation groups for
\* as long as it stays connected.
C22_OperatorsEnrolled ==
  [][/\ \A t \in TaskIds :
          Resolves(t) =>
            /\ emitted' = EmitTo(tasks[t].conn, "session:created", tasks'[t].sid, 0, "")
            /\ \A d \in PresentOperators(tasks[t].merchantId) :
                 tasks'[t].sid \in sessionRooms'[d]
     /\ \A d \in Conns : (Open(d) /\ conn'[d] = "open")
                            => sessionRooms[d] \subseteq sessionRooms'[d]]_vars

\* C22 witness: session:created has just gone to the customer, and an
\* operator whose first merchant:join still waits for its listing (it has
\* joined the presence group only) is a member of the conversation's group.
C22_Witness ==
  \E t \in TaskIds, d \in TwoConns :
    /\ tasks[t].kind = "customerJoin" /\ tasks[t].pc = "fetch"
    /\ emitted = EmitTo(tasks[t].conn, "session:created", tasks[t].sid, 0, "")
    /\ emitted # {}
    /\ d \in PresentOperators("X")
    /\ tasks[t].sid \in sessionRooms[d]
    /\ joinLimits[d].count = 1
    /\ \E u \in TaskIds : /\ tasks[u].kind = "merchantJoin"
                           /\ tasks[u].conn = d /\ tasks[u].pc = "list"

\* the listing of merchant join handler t answers and the handler completes
\* for a connection that is still there
MerchantJoined(t) ==
  /\ tasks[t].kind = "merchantJoin" /\ tasks[t].pc = "list"
  /\ tasks'[t] = NoTask /\ Open(tasks[t].conn)
  /\ emitted' # ErrorTo(tasks[t].conn, "Failed to join as merchant")

\* C23: when a merchant:join succeeds, the operator connection is in its
\* merchant's presence group and in the group of every active conversation
\* of the merchant, and merchant:online went to the presence group; the
\* groups of a connection without the operator role change only when a
\* customer join resolves its conversation or when it disconnects, never by
\* a merchant:join.
C23_JoinedEverywhere ==
  [][/\ \A t \in TaskIds :
          MerchantJoined(t) =>
            LET c == tasks[t].conn
                m == tasks[t].merchantId
            IN /\ m \in merchantRooms'[c]
               /\ ActiveSessions(m) \subseteq sessionRooms'[c]
               /\ emitted' = {Evt(d, "merchant:online", 0, 0, m) : d \in MerchantRoom(m)}
     /\ \A c \in Conns :
          (/\ data[c].userType # "merchant"
           /\ sessionRooms'[c] # sessionRooms[c] \/ merchantRooms'[c] # merchantRooms[c])
            => \/ \E t \in TaskIds : Resolves(t)
               \/ conn'[c] = "closed"]_vars

\* the history read of generation t answers
HistoryFetched(t) ==
  /\ tasks[t].kind = "customerMessage" /\ tasks[t].pc = "history"
  /\ tasks'[t].kind = "customerMessage" /\ tasks'[t].pc = "context"

\* C24: the turns a generation passes to the provider are the most recent
\* rows of the conversation as of its history read, at most historyWindow of
\* them, and the customer message that started the generation is among them.
C24_RecentHistoryWithTrigger ==
  [][\A t \in TaskIds :
       /\ HistoryFetched(t) =>
            LET sent == ProviderHistory(tasks'[t].history)
                all == IdsOf(tasks[t].sid, Len(messages))
            IN /\ Len(sent) <= historyWindow
               /\ sent = SliceLast(all, historyWindow)
               /\ \E i \in 1..Len(sent) : sent[i] = tasks[t].mid
       /\ (tasks[t].pc = "context" /\ tasks'[t].pc = "provider")
            => tasks'[t].history = ProviderHistory(tasks[t].history)]_vars

\* customer join handler t receives the conversation's messages and sends
\* session:history to its connection
HistorySent(t) ==
  /\ tasks[t].kind = "customerJoin" /\ tasks[t].pc = "history"
  /\ tasks'[t] = NoTask /\ Open(tasks[t].conn)

\* C25: the session:history event of a join carries every message of the
\* resolved conversation in creation order, none for a conversation just
\* created, and it is not sent in the step that sends session:created.
C25_FullHistory ==
  [][\A t \in TaskIds :
       /\ HistorySent(t) =>
            emitted' = {[Evt(tasks[t].conn, "session:history", tasks[t].sid, 0, "")
                           EXCEPT !.hist = IdsOf(tasks[t].sid, Len(messages))]}
       /\ Resolves(t) =>
            emitted' = EmitTo(tasks[t].conn, "session:created", tasks'[t].sid, 0, "")]_vars

\* the characters sanitizeMessage encodes besides "&", and the entities it emits
Encoded == {"<", ">", "\"", "'", "/"}
Entities == {Entity(ch) : ch \in Encoded \cup {"&"}}

\* an entity of sanitizeMessage stands complete at position i of text s
EntityAt(s, i) ==
  \E e \in Entities :
    i + Len(e) - 1 <= Len(s) /\ SubSeq(s, i, i + Len(e) - 1) = e

\* C26: whatever the input, the result of sanitizeMessage is no longer than
\* MAX_MESSAGE_LENGTH, holds none of the characters < > " ' / and every "&"
\* in it starts a complete entity of the function.
C26_SanitizedShape ==
  sanLog.called =>
    /\ Len(sanLog.output) <= MAX_MESSAGE_LENGTH
    /\ \A i \in 1..Len(sanLog.output) :
         /\ sanLog.output[i] \notin Encoded
         /\ sanLog.output[i] = "&" => EntityAt(sanLog.output, i)

\* C27: for an input whose encoded form fits the length cap, sanitizing the
\* result again returns the result.
C27_Idempotent ==
  (sanLog.twice /\ Len(Encode(Trim(sanLog.input))) <= MAX_MESSAGE_LENGTH)
    => sanLog.again = sanLog.output

\* the text a valid submission is stored as: trimmed, the six characters
\* replaced by their entities, cut at the length cap
StoredForm(input) ==
  LET e == Encode(Trim(input))
  IN IF Len(e) > MAX_MESSAGE_LENGTH THEN SubSeq(e, 1, MAX_MESSAGE_LENGTH) ELSE e

\* the submission is a text whose trimmed form has 1..MAX_MESSAGE_LENGTH characters
ValidSubmission(input) ==
  Len(Trim(input)) >= 1 /\ Len(Trim(input)) <= MAX_MESSAGE_LENGTH

\* handler t, at this pc, gets its chatMessage row in this step
Stores(t, kind, pc) ==
  /\ tasks[t].kind = kind /\ tasks[t].pc = pc /\ tasks'[t] # tasks[t]
  /\ Len(messages') = Len(messages) + 1

\* C28: every row stored for a customer or an operator holds the sanitized
\* form of a submission that passed validation; every row stored for the
\* automated sender holds the text generateResponse returned, as it was
\* returned; rows come from nowhere else and are never rewritten, and every
\* message broadcast is a stored row.
C28_StoredContent ==
  [][/\ \A t \in TaskIds :
          LET new == messages'[Len(messages')] IN
          /\ Stores(t, "customerMessage", "create")
               => /\ new.senderType = "customer"
                  /\ ValidSubmission(tasks[t].input)
                  /\ new.content = StoredForm(tasks[t].input)
          /\ Stores(t, "merchantMessage", "create")
               => /\ new.senderType = "merchant"
                  /\ ValidSubmission(tasks[t].input)
                  /\ new.content = StoredForm(tasks[t].input)
          /\ Stores(t, "customerMessage", "aiCreate")
               => /\ new.senderType = "ai"
                  /\ new.content = tasks[t].content
                  /\ new.content \in {MarkupText, FallbackMessage, NoContextMessage}
     /\ messages' # messages
          => /\ SubSeq(messages', 1, Len(messages)) = messages
             /\ \E t \in TaskIds : \/ Stores(t, "customerMessage", "create")
                                    \/ Stores(t, "merchantMessage", "create")
                                    \/ Stores(t, "customerMessage", "aiCreate")
     /\ \A e \in emitted' :
          e.ev \in {"message:receive", "ai:response"}
            => /\ e.mid \in 1..Len(messages')
               /\ messages'[e.mid].sessionId = e.sid]_vars

\* C28 witness: the conversation holds a customer row or an operator row
\* whose text was trimmed and encoded, and an automated row with the
\* provider's markup as returned.
C28_Witness ==
  \E i, j \in 1..Len(messages) :
    /\ messages[i].senderType \in {"customer", "merchant"}
    /\ messages[i].content = <<"&", "l", "t", ";">>
    /\ messages[j].senderType = "ai" /\ messages[j].content = MarkupText

\* the saveMessage call of handler t throws in this step, at its first or at
\* its second store call, and the handler's catch block reports the failure
SaveFails(t) ==
  /\ tasks[t].kind \in {"customerMessage", "merchantMessage"}
  /\ tasks[t].pc \in {"create", "touch", "aiCreate", "aiTouch"}
  /\ tasks'[t] = NoTask
  /\ emitted' = ErrorTo(tasks[t].conn, "Failed to send message")

\* the saveMessage call of handler t returns its row in this step
SaveReturns(t) ==
  /\ tasks[t].kind \in {"customerMessage", "merchantMessage"}
  /\ tasks[t].pc \in {"touch", "aiTouch"}
  /\ tasks'[t] # tasks[t] /\ ~SaveFails(t)

\* C29: a saveMessage call that returns has stored its row and refreshed the
\* conversation's updatedAt; a saveMessage call that fails leaves no row of
\* its own in the store and the timestamp as it was.
C29_SaveAtomic ==
  [][\A t \in TaskIds :
       /\ SaveReturns(t)
            => /\ tasks[t].mid \in 1..Len(messages')
               /\ sessions'[tasks[t].sid].updatedAt = now
       /\ SaveFails(t)
            => /\ tasks[t].mid \notin 1..Len(messages')
               /\ sessions' = sessions]_vars

\* connection c disconnects in this step
Disconnects(c) == conn[c] = "open" /\ conn'[c] = "closed"

\* C30: a disconnect changes no conversation row, no message row and no
\* generation lock; it takes the connection out of its groups, lowers the
\* connection count by one, and leaves the groups of the other connections,
\* the limiters and the running handlers alone.
C30_DisconnectFrame ==
  [][\A c \in Conns :
       Disconnects(c) =>
         /\ sessions' = sessions /\ messages' = messages /\ aiLocks' = aiLocks
         /\ activeConnections' = activeConnections - 1
         /\ sessionRooms'[c] = {} /\ merchantRooms'[c] = {}
         /\ \A d \in Conns \ {c} : /\ sessionRooms'[d] = sessionRooms[d]
                                    /\ merchantRooms'[d] = merchantRooms[d]
         /\ joinLimits' = joinLimits /\ msgLimits' = msgLimits
         /\ tasks' = tasks]_vars

\* C30 witness: the customer's connection is gone while the generation for
\* its conversation holds the lock and its messages are stored.
C30_Witness ==
  /\ conn[1] = "closed" /\ activeConnections = 0
  /\ sessionRooms[1] = {} /\ merchantRooms[1] = {}
  /\ \E sid \in aiLocks : \E m \in 1..Len(messages) : messages[m].sessionId = sid
  /\ \E t \in TaskIds : tasks[t].kind = "customerMessage" /\ tasks[t].conn = 1

\* ------------------------------------------------------------------ typing
\* Connection 1 authenticates as operator of "X" and connection 2 is a guest:
\* the guest joins the chat of "X", the operator emits merchant:join, and
\* both emit typing:start and typing:stop for any session id, before and
\* after their role is resolved.  The provider is switched off.
InitTyp == Init /\ ~aiEnabledEnv

TypingEvents == {"typing:start", "typing:stop"}

NextTyp ==
  \/ \E c \in TwoConns : HandshakeStart(c, AuthCredential(c))
  \/ \E c \in TwoConns : HandshakeAuth(c)
  \/ \E c \in TwoConns : Disconnect(c)
  \/ \E t \in AuthTasks, p \in OneProfile : CustomerJoinStart(2, t, "X", p, "", 0)
  \/ \E t \in AuthTasks : \/ JoinMerchant(t)
                           \/ JoinCreate(t)
                           \/ JoinFetch(t)
                           \/ JoinHistory(t)
  \/ \E c \in TwoConns, t \in AuthTasks : MerchantJoinStart(c, t)
  \/ \E t \in AuthTasks, ok \in BOOLEAN : MerchantJoinList(t, ok)
  \/ \E c \in TwoConns, sid \in SessionIds, ev \in TypingEvents : Typing(c, sid, ev)

SpecTyp == InitTyp /\ [][NextTyp]_vars

\* the deliveries of one typing event of role r for session sid: one to
\* every member of the group other than connection c
TypingDeliveries(c, sid, ev, r) ==
  {[to |-> d, ev |-> ev, sid |-> sid, mid |-> 0, msg |-> r, hist |-> <<>>] :
     d \in {e \in Conns : conn[e] = "open" /\ sid \in sessionRooms[e] /\ e # c}}

\* C31: a typing:start or typing:stop of a connection with a resolved role
\* is delivered to every other member of the named conversation group and
\* to nobody else, never to the sender, and leaves conversations, messages,
\* locks and both rate limiters as they were; of a connection without a
\* resolved role it delivers nothing.
C31_TypingRelayed ==
  [][\A c \in Conns, sid \in SessionIds, ev \in TypingEvents :
       Typing(c, sid, ev) =>
         /\ UNCHANGED << sessions, messages, aiLocks, joinLimits, msgLimits >>
         /\ data[c].userType = "" => emitted' = {}
         /\ data[c].userType # "" =>
              /\ emitted' = TypingDeliveries(c, sid, ev, data[c].userType)
              /\ \A e \in emitted' : e.to # c]_vars

\* the guest, member of a conversation group together with the operator,
\* has typed and the operator alone was told
C31_Witness ==
  \E c \in Conns, d \in Conns, sid \in SessionIds :
    /\ c # d
    /\ data[c].userType = "customer" /\ data[d].userType = "merchant"
    /\ sid \in sessionRooms[c] /\ sid \in sessionRooms[d]
    /\ emitted = {[to |-> d, ev |-> "typing:start", sid |-> sid, mid |-> 0,
                   msg |-> "customer", hist |-> <<>>]}

\* ------------------------------------------ operator handlers interleaved
\* Connection 1 authenticates as operator of "X" and connection 2 is a guest
\* who joins "X"; the operator sends messages, takes over and releases, two
\* handlers at a time.  The store answers every call; the provider is
\* switched off.
InitTake == Init /\ ~aiEnabledEnv

NextTake ==
  \/ \E c \in TwoConns : HandshakeStart(c, AuthCredential(c))
  \/ \E c \in TwoConns : HandshakeAuth(c)
  \/ \E t \in TaskIds, p \in OneProfile : CustomerJoinStart(2, t, "X", p, "", 0)
  \/ \E t \in TaskIds : \/ JoinMerchant(t)
                         \/ JoinCreate(t)
                         \/ JoinFetch(t)
                         \/ JoinHistory(t)
  \/ \E t \in TaskIds : MerchantMessageStart(1, t, 1, <<"o", "k">>)
  \/ \E t \in TaskIds : \/ MerchantMsgGetSession(t)
                         \/ MerchantMsgCreate(t)
                         \/ MerchantMsgTouch(t)
                         \/ MerchantMsgTakeover(t)
  \/ \E t \in TaskIds : TakeoverStart(1, t, 1)
  \/ \E t \in TaskIds : TakeoverGetSession(t) \/ TakeoverUpdate(t)
  \/ \E t \in TaskIds : ReleaseStart(1, t, 1)
  \/ \E t \in TaskIds : ReleaseGetSession(t) \/ ReleaseUpdate(t)

SpecTake == InitTake /\ [][NextTake]_vars

\* operator message handler t returns after its message was broadcast
OperatorMessageDone(t) ==
  /\ tasks[t].kind = "merchantMessage" /\ tasks[t].pc \in {"touch", "takeover"}
  /\ tasks'[t].kind = "idle"

\* C32: whatever takeover and release handlers run in between, an operator
\* message handler whose message row was created while the conversation was
\* in automated mode leaves the conversation operator-controlled (takeover
\* set, automated responses off) when it completes.
C32_MessageEndsInTakeover ==
  [][\A t \in TaskIds :
       OperatorMessageDone(t) /\ tasks[t].savedInAI
         => /\ sessions'[tasks[t].sid].merchantTookOver
            /\ ~sessions'[tasks[t].sid].aiEnabled]_vars

\* the events that carry a message record
MessageEvents == {"message:receive", "ai:response"}

\* C33: every message:receive and ai:response event carries a message that
\* is stored for the conversation the event is broadcast to (an ai:response
\* a row of the assistant), and the stored messages only grow by appends:
\* no step changes or removes a stored row.
C33_BroadcastStoredAppendOnly ==
  /\ [](\A e \in emitted :
          e.ev \in MessageEvents
            => /\ e.mid \in 1..Len(messages)
               /\ messages[e.mid].sessionId = e.sid
               /\ messages[e.mid].id = e.mid
               /\ e.sid \in sessionRooms[e.to]
               /\ e.ev = "ai:response" => messages[e.mid].senderType = "ai")
  /\ [][/\ Len(messages') >= Len(messages)
        /\ SubSeq(messages', 1, Len(messages)) = messages]_vars

\* an automated reply stored after other rows of its conversation has just
\* been broadcast to the group
C33_Witness ==
  \E e \in emitted :
    /\ e.ev = "ai:response"
    /\ e.mid > 1 /\ e.mid = Len(messages)
    /\ messages[e.mid].senderType = "ai"
    /\ messages[e.mid - 1].sessionId = e.sid

\* C34: whenever the limiter rejects a call, the number of seconds the
\* handler names in its error is at least 1 and at most the window length
\* in seconds.
C34_WaitWithinWindow ==
  \A i \in 1..Len(rlLog) :
    rlLog[i].limited
      => /\ rlLog[i].wait >= 1
         /\ rlLog[i].wait * SecondMs <= windowMs * SecondMs

\* ------------------------------------------------------- the cleanup timer
\* Two guest connections connect, call messageRateLimiter.isRateLimited as their
\* message:send handlers do, and disconnect, while the clock advances and
\* the limiter's setInterval timer runs the sweep once per period.  A call
\* is followed only while the sweep that removes its entry falls within the
\* modelled time.

\* the interval timer fires: cleanup() of both limiters, and the next run is
\* one period later
Sweep ==
  /\ now >= sweepDue
  /\ sweepDue' = sweepDue + sweepMs
  /\ joinLimits' = cleanup(joinLimits)
  /\ msgLimits' = cleanup(msgLimits)
  /\ emitted' = {}
  /\ UNCHANGED << now, conn, data, sessionRooms, merchantRooms,
                  activeConnections, chatEnabled, sessions, messages, aiLocks,
                  aiEnabledEnv, tasks, handshake, rlLog, sanLog >>

\* the clock advances; a timer that is due fires before the clock moves on
SweepTick ==
  /\ now < SweepMaxTime /\ now < sweepDue
  /\ now' = now + 1
  /\ emitted' = {}
  /\ UNCHANGED << conn, data, sessionRooms, merchantRooms, activeConnections,
                  chatEnabled, sessions, messages, aiLocks, aiEnabledEnv,
                  joinLimits, msgLimits, tasks, handshake, rlLog, sanLog,
                  sweepDue >>

\* a connected socket's handler asks the limiter
SweepCall(id) ==
  /\ conn[id] = "open"
  /\ now + windowMs + sweepMs <= SweepMaxTime
  /\ RLCall(id)

InitSweep == Init /\ ~aiEnabledEnv

NextSweep ==
  \/ SweepTick
  \/ Sweep
  \/ \E c \in TwoConns : HandshakeStart(c, "none")
  \/ \E c \in TwoConns : Disconnect(c)
  \/ \E c \in TwoConns : SweepCall(c)

SpecSweep == InitSweep /\ [][NextSweep]_vars

\* the timer keeps firing and the clock keeps advancing
SpecSweepFair == SpecSweep /\ WF_vars(Sweep) /\ WF_vars(SweepTick)

\* the connections that hold an entry in messageRateLimiter.limits
Held == {id \in Conns : msgLimits[id] # NoEntry}

\* the connections that called the limiter within the last window plus one
\* sweep period
RecentCallers ==
  {rlLog[i].id : i \in {j \in 1..Len(rlLog) :
                          rlLog[j].at >= now - (windowMs + sweepMs)}}

InitOver == Init /\ aiEnabledEnv

NextOver ==
  \/ \E c \in TwoConns : HandshakeStart(c, AuthCredential(c))
  \/ \E c \in TwoConns : HandshakeAuth(c)
  \/ \E t \in TaskIds, p \in OneProfile : CustomerJoinStart(2, t, "X", p, "", 0)
  \/ \E t \in TaskIds : \/ JoinMerchant(t)
                         \/ JoinCreate(t)
                         \/ JoinFetch(t)
                         \/ JoinHistory(t)
  \/ \E t \in TaskIds : CustomerMessageStart(2, t, 1, <<"h", "i">>)
  \/ \E t \in TaskIds : \/ MsgGetSession(t)
                         \/ MsgMerchant(t)
                         \/ MsgCreate(t)
                         \/ MsgTouch(t)
                         \/ GenHistory(t)
                         \/ GenCreate(t)
                         \/ GenTouch(t)
  \/ \E t \in TaskIds : GenContext(t, TRUE)
  \/ \E t \in TaskIds : GenProvider(t, ProviderText)
  \/ \E t \in TaskIds : MerchantMessageStart(1, t, 1, <<"o", "k">>)
  \/ \E t \in TaskIds : \/ MerchantMsgGetSession(t)
                         \/ MerchantMsgCreate(t)
                         \/ MerchantMsgTouch(t)
                         \/ MerchantMsgTakeover(t)
  \/ \E t \in TaskIds : TakeoverStart(1, t, 1)
  \/ \E t \in TaskIds : TakeoverGetSession(t) \/ TakeoverUpdate(t)
  \/ \E t \in TaskIds : ReleaseStart(1, t, 1)
  \/ \E t \in TaskIds : ReleaseGetSession(t) \/ ReleaseUpdate(t)

SpecOver == InitOver /\ [][NextOver]_vars

\* C36: while the last mode change applied to a conversation is a takeover
\* (explicit, or through an operator message), no step stores an automated
\* reply for that conversation and none broadcasts one.
C36_NoReplyAfterTakeover ==
  [][\A sid \in 1..Len(sessions) :
       sessions[sid].merchantTookOver
         => /\ \A m \in (Len(messages) + 1)..Len(messages') :
                 ~(messages'[m].sessionId = sid /\ messages'[m].senderType = "ai")
            /\ \A e \in emitted' : ~(e.ev = "ai:response" /\ e.sid = sid)]_vars

\* the active conversations of a customer id with a merchant
ActiveOf(m, cid) ==
  {i \in 1..Len(sessions) :
     /\ sessions[i].merchantId = m /\ sessions[i].customerId = cid
     /\ sessions[i].status = "active"}

\* C37: joins that carry the same merchant and the same customer id resolve
\* to one conversation, however they interleave: at most one active
\* conversation exists per merchant and customer id.
C37_OneActiveConversation ==
  \A m \in MerchantIds, cid \in CustomerIds \ {""} :
    Cardinality(ActiveOf(m, cid)) <= 1

\* ------------------------------------------------ exits of the generation
\* The scenario of SpecReply, with store calls of the generation that may
\* throw: every awaited store call is answered or throws in the end, and
\* the provider's HTTP call is answered or fails.
NextStop ==
  \/ NextReply
  \/ \E t \in TaskIds : GenFail(t)

SpecStop == InitReply /\ [][NextStop]_vars /\ StoreAnswers /\ ProviderAnswers

\* an automated typing event of this kind has just been broadcast to group sid
AutoTyping(sid, ev) ==
  \E e \in emitted : e.ev = ev /\ e.sid = sid /\ e.msg = "merchant"

\* C38: every automated typing:start broadcast to a conversation group is
\* followed, in the end, by a typing:stop broadcast to the same group.
C38_TypingStopFollows ==
  \A sid \in SessionIds :
    AutoTyping(sid, "typing:start") ~> AutoTyping(sid, "typing:stop")

\* the limits map of a limiter that answered the first n calls of rlLog at
\* the same times and was never swept
RECURSIVE Unswept(_)
Unswept(n) ==
  IF n = 0 THEN [id \in Conns |-> NoEntry]
  ELSE LET prev == Unswept(n - 1)
           c == rlLog[n]
       IN IF prev[c.id] = NoEntry \/ c.at > prev[c.id].resetTime
            THEN [prev EXCEPT ![c.id] = [count |-> 1, resetTime |-> c.at + windowMs]]
            ELSE [prev EXCEPT ![c.id].count = @ + 1]

\* what the never swept limiter answered to call n: isRateLimited, and the
\* seconds of getResetTime right after it
UnsweptLimited(n) ==
  LET e == Unswept(n - 1)[rlLog[n].id] IN
  e # NoEntry /\ rlLog[n].at <= e.resetTime /\ e.count + 1 > msgMaxRequests

UnsweptWait(n) == Unswept(n)[rlLog[n].id].resetTime - rlLog[n].at

\* C39: the sweep removes only entries whose window has expired, and the
\* swept limiter answers every call as a limiter that is never swept: each
\* logged isRateLimited call returned the same value and the same wait, and
\* in every state isRateLimited, getRemaining and getResetTime would return
\* the same for every connection.
C39_SweepTransparent ==
  /\ [](\A i \in 1..Len(rlLog) :
          /\ rlLog[i].limited = UnsweptLimited(i)
          /\ rlLog[i].wait = UnsweptWait(i))
  /\ [](\A id \in Conns :
          LET twin == Unswept(Len(rlLog)) IN
          /\ isRateLimited(msgLimits, id, msgMaxRequests)
               = isRateLimited(twin, id, msgMaxRequests)
          /\ getRemaining(msgLimits, id, msgMaxRequests)
               = getRemaining(twin, id, msgMaxRequests)
          /\ getResetTime(msgLimits, id) = getResetTime(twin, id))
  /\ [][\A id \in Conns :
          (msgLimits[id] # NoEntry /\ msgLimits'[id] = NoEntry)
            => now > msgLimits[id].resetTime]_vars

\* the sweep has removed an entry that the never swept limiter still holds,
\* and a connection has opened a second window over an earlier entry
C39_Witness ==
  \E i \in 2..Len(rlLog) :
    /\ Unswept(i - 1)[rlLog[i].id] # NoEntry
    /\ rlLog[i].opened
    /\ \E d \in Conns : msgLimits[d] = NoEntry /\ Unswept(Len(rlLog))[d] # NoEntry

====
